---------------------------- MODULE Spec2Model ----------------------------
(***************************************************************************)
(* A model of eterevsky/tokens: the vocabulary (tokenset.rs), the          *)
(* segmentation engine (tokenizer2.rs), the scan and its cache             *)
(* (batch_tokenize.rs, stats2.rs), the byte optimizers (optimize_bytes.rs) *)
(* and the optimizer loop (optimize.rs).                                   *)
(*                                                                         *)
(* Indices are kept as in the source (0-based); a Rust vector v is a TLA+  *)
(* sequence and v[i] is written At(v, i).  Byte values range over          *)
(* ByteValues instead of 0..255.                                           *)
(***************************************************************************)
EXTENDS Integers, Sequences, FiniteSets, TLC

VARIABLES
    ts,             \* the vocabulary under construction / in use (TokenSet)
    loaded,         \* result of the last from_json(to_json(ts))
    stats,          \* TokenStats of the driver (engine scans, merged result)
    slices,         \* the slices process_slice was called with, in order
    pc,             \* position of the driver
    samples,        \* what the sampler yields (a sequence of byte strings)
    nthreads,       \* available_parallelism
    jobs,           \* the bounded work channel (queue of samples)
    nsent,          \* number of samples the producer has sent
    closed,         \* jobs_tx has been dropped
    lockHolder,     \* worker holding the receiver's mutex, 0 when free
    wpc,            \* position of each worker
    wjob,           \* the sample each worker holds
    wstats,         \* private TokenStats of each worker
    wlog,           \* samples processed by each worker, in order
    results,        \* the unbounded results channel
    nmerged,        \* number of results the driver has merged
    cache,          \* TokenizerCache.cache: set of [key, stats] entries
    ret,            \* what the last cache call / optimizer step returned
    budget,         \* ntokens, the vocabulary budget N
    removal_count,  \* attempt counter per byte string (set of [s, n])
    prev_ts,        \* the vocabulary the optimizer loop held before the step
    how,            \* which mutation produced the adopted vocabulary
    nadds,          \* number of add_token calls made on ts
    kind_arg,       \* the token_type argument of optimize_tokenset
    json            \* the JSON document given to from_json, None without one

vars == <<ts, loaded, stats, slices, pc, samples, nthreads, jobs, nsent, closed,
          lockHolder, wpc, wjob, wstats, wlog, results, nmerged, cache, ret,
          budget, removal_count, prev_ts, how, nadds, kind_arg, json>>

-----------------------------------------------------------------------------
(* Bounds of the model *)

\* longest slice given to process_slice
MaxSliceLen == 3
\* number of process_slice calls on one TokenStats
MaxSlices == 1
\* number of add_token calls when building a vocabulary
MaxAdd == 3
\* longest byte string given to add_token
MaxTokenLen == 2
\* number of samples the sampler yields in a parallel scan
MaxSamples == 2
\* number of worker threads (available_parallelism)
MaxThreads == 2
\* largest token budget N given to optimize_tokenset
MaxBudget == 8
\* number of add_token calls on a vocabulary given to the cache
MaxCacheAdd == 2
\* number of entries the cache holds
MaxCacheKeys == 1
\* longest input on which two vocabularies of one key are compared
MaxInputLen == 2
\* the most add_token calls on the vocabulary of SpecBpe
MaxBpeAdd == 2
\* the longest sample scanned in SpecBpe
MaxBpeLen == 4
\* the most add_token calls on the vocabulary of SpecVocab
MaxVocabAdd == 2
\* the most single-byte tokens asked of SimpleBytesOptimizer in SpecVocab
MaxByteTokens == 3
\* the largest n_byte_ext_tokens asked of HuffOptimizer in SpecVocab
MaxByteExt == 5

\* most tokens add_token adds to a vocabulary that is edited
MaxEditAdd == 3

\* most sequences add_sequence adds to a vocabulary that is edited
MaxEditSeq == 2

\* most tokens added to a vocabulary whose scans are split
MaxSplitAdd == 2

\* longest of the two parts of a split input
MaxSplitLen == 3

\* the highest count of a byte in the byte frequencies the Huffman
\* optimizer is given
MaxByteCount == 2

\* the highest n_byte_ext_tokens the Huffman optimizer is asked for
MaxHuffBudget == 7

\* the longest line given to process
MaxLineLen == 4

-----------------------------------------------------------------------------
(* Vectors and bytes *)

At(v, i) == v[i + 1]

Last(v) == v[Len(v)]

Range(v) == {v[i] : i \in 1..Len(v)}

\* body applied to the value of v, with v evaluated once: a let binding, as
\* `let x = v;` in the source
Bind(v, body(_)) == CHOOSE y \in {body(x) : x \in {v}} : TRUE

Min(a, b) == IF a < b THEN a ELSE b

Zeros(n) == [i \in 1..n |-> 0]

\* v with 1 added at (0-based) index i
Incr(v, i) == [v EXCEPT ![i + 1] = @ + 1]

\* The byte values of the model: newline, 'a', 'b' and the two bytes of the
\* UTF-8 encoding of U+00E9 (0xC3 0xA9), each of which alone is not UTF-8.
ByteValues == {10, 97, 98, 169, 195}

\* ByteValues in increasing order, as `for c in 0..256` visits them
ByteList ==
    LET n == Cardinality(ByteValues)
    IN  [p \in 1..n |-> CHOOSE b \in ByteValues :
                            Cardinality({c \in ByteValues : c < b}) = p - 1]

\* Vec<u8>::cmp: lexicographic order on byte strings
RECURSIVE LexLess(_, _)
LexLess(a, b) ==
    IF b = <<>> THEN FALSE
    ELSE IF a = <<>> THEN TRUE
    ELSE IF Head(a) # Head(b) THEN Head(a) < Head(b)
    ELSE LexLess(Tail(a), Tail(b))

\* s[start..] with a 0-based start
SuffixFrom(s, start) == SubSeq(s, start + 1, Len(s))

\* s[..end]
PrefixTo(s, end) == SubSeq(s, 1, end)

IsCont(b) == b >= 128 /\ b <= 191

\* std::str::from_utf8(bytes).is_ok()
RECURSIVE IsUtf8(_)
IsUtf8(s) ==
    IF s = <<>> THEN TRUE
    ELSE LET b == s[1]
             n == Len(s)
         IN  IF b < 128 THEN IsUtf8(SuffixFrom(s, 1))
             ELSE IF b >= 194 /\ b <= 223
                  THEN n >= 2 /\ IsCont(s[2]) /\ IsUtf8(SuffixFrom(s, 2))
             ELSE IF b >= 224 /\ b <= 239
                  THEN /\ n >= 3
                       /\ IsCont(s[2]) /\ IsCont(s[3])
                       /\ (b = 224 => s[2] >= 160)
                       /\ (b = 237 => s[2] <= 159)
                       /\ IsUtf8(SuffixFrom(s, 3))
             ELSE IF b >= 240 /\ b <= 244
                  THEN /\ n >= 4
                       /\ IsCont(s[2]) /\ IsCont(s[3]) /\ IsCont(s[4])
                       /\ (b = 240 => s[2] >= 144)
                       /\ (b = 244 => s[2] <= 143)
                       /\ IsUtf8(SuffixFrom(s, 4))
             ELSE FALSE

-----------------------------------------------------------------------------
(* tokenset.rs: Token, Sequence, TokenSet *)

Ext(n) == [ext |-> TRUE, k |-> n, s |-> <<>>]

Str(bytes) == [ext |-> FALSE, k |-> 0, s |-> bytes]

\* impl Ord for Token
TokenLess(x, y) ==
    IF x.ext /\ y.ext THEN x.k < y.k
    ELSE IF x.ext THEN TRUE
    ELSE IF y.ext THEN FALSE
    ELSE LexLess(x.s, y.s)

\* impl Ord for Sequence
SequenceLess(x, y) == LexLess(x.string, y.string)

TokenSetNew(n_ext_tokens, processing, token_type, split_paragraphs) ==
    [n_ext_tokens |-> n_ext_tokens,
     token_type |-> token_type,
     processing |-> processing,
     split_paragraphs |-> split_paragraphs,
     tokens |-> [i \in 1..n_ext_tokens |-> Ext(i - 1)],
     sequences |-> <<>>]

add_sequence(t, string, tokens) ==
    [t EXCEPT !.sequences = Append(@, [string |-> string, tokens |-> tokens])]

\* add_token without the retain: the shadowed sequence stays
add_token_keeps_sequence(t, token) ==
    [t EXCEPT !.tokens = Append(@, Str(token))]

\* the vocabulary after add_token(token); the index returned is the old ntokens
add_token(t, token) ==
    [t EXCEPT !.sequences = SelectSeq(@, LAMBDA q : q.string # token),
              !.tokens = Append(@, Str(token))]

\* the digits of c in base 2^bits, most significant first, ndigits of them
RECURSIVE Digits(_, _, _)
Digits(c, base, ndigits) ==
    IF ndigits = 0 THEN <<>>
    ELSE Append(Digits(c \div base, base, ndigits - 1), c % base)

RECURSIVE AddSequences(_, _, _, _)
AddSequences(t, bytes, base, ndigits) ==
    IF bytes = <<>> THEN t
    ELSE AddSequences(add_sequence(t, <<Head(bytes)>>, Digits(Head(bytes), base, ndigits)),
                      Tail(bytes), base, ndigits)

new_bits1(processing, split_paragraphs) ==
    AddSequences(TokenSetNew(2, processing, "Bits1", split_paragraphs), ByteList, 2, 8)

new_bits2(processing, split_paragraphs) ==
    AddSequences(TokenSetNew(4, processing, "Bits2", split_paragraphs), ByteList, 4, 4)

new_bits4(processing, split_paragraphs) ==
    AddSequences(TokenSetNew(16, processing, "Bits4", split_paragraphs), ByteList, 16, 2)

RECURSIVE AddTokens(_, _)
AddTokens(t, strings) ==
    IF strings = <<>> THEN t
    ELSE AddTokens(add_token(t, Head(strings)), Tail(strings))

new_bytes(processing) ==
    AddTokens(TokenSetNew(0, processing, "Bytes", TRUE),
              [i \in 1..Len(ByteList) |-> <<ByteList[i]>>])

min_bytes_ext_tokens(t) ==
    CASE t.token_type = "Bits1" -> 2
      [] t.token_type = "Bits2" -> 4
      [] t.token_type = "Bits4" -> 16
      [] t.token_type = "Bytes" -> Cardinality(ByteValues)
      [] t.token_type = "BytesHuff" -> 3

ntokens(t) == Len(t.tokens)

n_long_tokens(t) ==
    Cardinality({i \in 1..Len(t.tokens) : ~t.tokens[i].ext /\ Len(t.tokens[i].s) > 1})

\* Option<usize>: the 0-based index of the first Str token equal to s, -1 for None
find_token(t, s) ==
    LET hits == {i \in 1..Len(t.tokens) : ~t.tokens[i].ext /\ t.tokens[i].s = s}
    IN  IF hits = {} THEN -1
        ELSE (CHOOSE i \in hits : \A j \in hits : i <= j) - 1

\* remove_token's assertion: no sequence refers to token_idx
remove_token_ok(t, token_idx) ==
    \A i \in 1..Len(t.sequences) : token_idx \notin Range(t.sequences[i].tokens)

\* a remove_token that moves the last token to token_idx and leaves the
\* sequences' indices as they are
remove_token_keeps_indices(t, token_idx) ==
    LET last_idx == Len(t.tokens) - 1
        popped == SubSeq(t.tokens, 1, last_idx)
    IN  IF token_idx = last_idx
        THEN [t EXCEPT !.tokens = popped]
        ELSE [t EXCEPT !.tokens = [popped EXCEPT ![token_idx + 1] = Last(t.tokens)]]

remove_token(t, token_idx) ==
    LET last_idx == Len(t.tokens) - 1
        popped == SubSeq(t.tokens, 1, last_idx)
    IN  IF token_idx = last_idx
        THEN [t EXCEPT !.tokens = popped]
        ELSE [t EXCEPT
                !.tokens = [popped EXCEPT ![token_idx + 1] = Last(t.tokens)],
                !.sequences = [i \in 1..Len(t.sequences) |->
                    [t.sequences[i] EXCEPT !.tokens =
                        [j \in 1..Len(t.sequences[i].tokens) |->
                            IF t.sequences[i].tokens[j] = last_idx
                            THEN token_idx
                            ELSE t.sequences[i].tokens[j]]]]]

\* The permutation a stable sort applies: perm[p] is the (1-based) position in
\* v of the element that ends at position p.
StablePerm(v, Less(_, _)) ==
    LET n == Len(v)
        rank(i) == Cardinality({j \in 1..n : Less(v[j], v[i])})
                   + Cardinality({j \in 1..(i - 1) :
                                    ~Less(v[j], v[i]) /\ ~Less(v[i], v[j])})
    IN  [p \in 1..n |-> CHOOSE i \in 1..n : rank(i) = p - 1]

StableSort(v, Less(_, _)) ==
    LET perm == StablePerm(v, Less)
    IN  [p \in 1..Len(v) |-> v[perm[p]]]

\* a sort that sorts the tokens and the sequences and leaves the sequences'
\* indices as they are
sort_keeps_indices(t) ==
    [t EXCEPT !.tokens = StableSort(t.tokens, TokenLess),
              !.sequences = StableSort(t.sequences, SequenceLess)]

\* a sort whose new_indices are those of the descending order of the tokens
sort_renumbers_descending(t) ==
    LET token_idxs == StablePerm(t.tokens, LAMBDA x, y : TokenLess(y, x))
        new_index(cur) == (CHOOSE p \in 1..Len(token_idxs) : token_idxs[p] = cur + 1) - 1
        renumbered == [i \in 1..Len(t.sequences) |->
                          [t.sequences[i] EXCEPT !.tokens =
                              [j \in 1..Len(t.sequences[i].tokens) |->
                                  new_index(t.sequences[i].tokens[j])]]]
    IN  [t EXCEPT !.tokens = StableSort(t.tokens, TokenLess),
                  !.sequences = StableSort(renumbered, SequenceLess)]

\* TokenSet::sort
sort(t) ==
    LET token_idxs == StablePerm(t.tokens, TokenLess)
        \* new_indices[current_pos] = new_pos, both 0-based
        new_index(cur) == (CHOOSE p \in 1..Len(token_idxs) : token_idxs[p] = cur + 1) - 1
        renumbered == [i \in 1..Len(t.sequences) |->
                          [t.sequences[i] EXCEPT !.tokens =
                              [j \in 1..Len(t.sequences[i].tokens) |->
                                  new_index(t.sequences[i].tokens[j])]]]
    IN  [t EXCEPT !.tokens = StableSort(t.tokens, TokenLess),
                  !.sequences = StableSort(renumbered, SequenceLess)]

-----------------------------------------------------------------------------
(* tokenset.rs: JSON.  A serde_json Value is modelled by its structure: an   *)
(* object is a record (a function of its keys), a number is                  *)
(* [t |-> "num"], a string [t |-> "str"] carrying the bytes of its UTF-8     *)
(* encoding, an array of numbers [t |-> "arr"].                              *)

JNum(n) == [t |-> "num", n |-> n, b |-> <<>>]

JStr(bytes) == [t |-> "str", n |-> 0, b |-> bytes]

JArr(bytes) == [t |-> "arr", n |-> 0, b |-> bytes]

\* bytes_to_json with from_utf8_lossy: invalid bytes become U+FFFD
bytes_to_json_lossy(bytes) ==
    IF IsUtf8(bytes) THEN JStr(bytes)
    ELSE JStr([i \in 1..Len(bytes) |-> IF bytes[i] < 128 THEN bytes[i] ELSE 65533])

bytes_to_json(bytes) == IF IsUtf8(bytes) THEN JStr(bytes) ELSE JArr(bytes)

TokenToJson(token) == IF token.ext THEN JNum(token.k) ELSE bytes_to_json(token.s)

SequenceToJson(q, t) ==
    [string |-> bytes_to_json(q.string),
     tokens |-> [i \in 1..Len(q.tokens) |-> TokenToJson(At(t.tokens, q.tokens[i]))]]

\* #[serde(rename_all = "lowercase")] on TokenType
TokenTypeToJson(token_type) ==
    CASE token_type = "Bits1" -> "bits1"
      [] token_type = "Bits2" -> "bits2"
      [] token_type = "Bits4" -> "bits4"
      [] token_type = "Bytes" -> "bytes"
      [] token_type = "BytesHuff" -> "byteshuff"

ProcessingToJson(processing) == IF processing = "Raw" THEN "raw" ELSE "capswords"

to_json(t) ==
    LET value == [type |-> TokenTypeToJson(t.token_type),
                  processing |-> ProcessingToJson(t.processing),
                  tokens |-> [i \in 1..Len(t.tokens) |-> TokenToJson(t.tokens[i])],
                  split_paragraphs |-> t.split_paragraphs]
        long == SelectSeq(t.sequences, LAMBDA q : Len(q.tokens) > 1)
        sequences == [i \in 1..Len(long) |-> SequenceToJson(long[i], t)]
    IN  IF sequences # <<>>
        THEN [k \in DOMAIN value \cup {"sequences"} |->
                 IF k = "sequences" THEN sequences ELSE value[k]]
        ELSE value

\* the match on value["type"] of from_json: the TokenType, "unknown" where
\* the match panics ("Unknown token type", the unwrap of a missing
\* fallback_bits, unreachable!)
json_token_type(value) ==
    CASE value.type = "fallback_bits" ->
            IF "fallback_bits" \notin DOMAIN value THEN "unknown"
            ELSE CASE value.fallback_bits = 1 -> "Bits1"
                   [] value.fallback_bits = 2 -> "Bits2"
                   [] value.fallback_bits = 4 -> "Bits4"
                   [] OTHER -> "unknown"
      [] value.type = "all_tokens" -> "Bytes"
      [] value.type = "bits1" -> "Bits1"
      [] value.type = "bits2" -> "Bits2"
      [] value.type = "bits4" -> "Bits4"
      [] value.type = "bytes" -> "Bytes"
      [] value.type = "byteshuff" -> "BytesHuff"
      [] OTHER -> "unknown"

\* from_json panics (unwrap, assert, panic!) on this value
from_json_panics(value) ==
    LET numbers == SelectSeq(value.tokens, LAMBDA v : v.t = "num")
        n_ext_tokens == Len(numbers)
    IN  \/ value.processing \notin {"raw", "capswords"}
        \/ json_token_type(value) = "unknown"
        \/ json_token_type(value) = "Bits1" /\ n_ext_tokens # 2
        \/ json_token_type(value) = "Bits2" /\ n_ext_tokens # 4
        \/ json_token_type(value) = "Bits4" /\ n_ext_tokens # 16
        \/ json_token_type(value) = "Bytes" /\ n_ext_tokens # 0
        \/ json_token_type(value) = "BytesHuff" /\ n_ext_tokens >= 256
        \/ \E i \in 1..Len(value.tokens) :
              value.tokens[i].t # "num" /\ value.tokens[i].b = <<>>

from_json(value) ==
    LET numbers == SelectSeq(value.tokens, LAMBDA v : v.t = "num")
        n_ext_tokens == Len(numbers)
        processing == IF value.processing = "raw" THEN "Raw" ELSE "CapsWords"
        token_type == json_token_type(value)
        split_paragraphs ==
            IF "split_paragraph" \in DOMAIN value THEN value["split_paragraph"] ELSE FALSE
        token_set ==
            CASE token_type = "Bits1" -> new_bits1(processing, split_paragraphs)
              [] token_type = "Bits2" -> new_bits2(processing, split_paragraphs)
              [] token_type = "Bits4" -> new_bits4(processing, split_paragraphs)
              [] token_type = "Bytes" -> TokenSetNew(0, processing, "Bytes", split_paragraphs)
              [] OTHER -> TokenSetNew(n_ext_tokens, processing, token_type, split_paragraphs)
        strs == SelectSeq(value.tokens, LAMBDA v : v.t # "num")
    IN  AddTokens(token_set, [i \in 1..Len(strs) |-> strs[i].b])

-----------------------------------------------------------------------------
(* stats2.rs: TokenStats *)

TokenStatsNew(token_set) ==
    [token_set |-> token_set,
     total_tokens |-> 0,
     scanned_bytes |-> 0,
     token_counts |-> Zeros(Len(token_set.tokens)),
     seq_counts |-> Zeros(Len(token_set.sequences)),
     pair_counts |-> Zeros(Len(token_set.tokens) * Len(token_set.tokens))]

\* TokenStats::merge
merge(self, other) ==
    [self EXCEPT
        !.total_tokens = @ + other.total_tokens,
        !.scanned_bytes = @ + other.scanned_bytes,
        !.token_counts = [i \in 1..Len(self.token_counts) |-> @[i] + other.token_counts[i]],
        !.seq_counts = [i \in 1..Len(self.seq_counts) |-> @[i] + other.seq_counts[i]]]

-----------------------------------------------------------------------------
(* tokenizer2.rs: FragmentTokenizer *)

\* span_by_str.get(s): the index of the span whose string is s, -1 for None
SpanByStr(spans, s) ==
    LET hits == {i \in 1..Len(spans) : spans[i].string = s}
    IN  IF hits = {} THEN -1 ELSE (CHOOSE i \in hits : TRUE) - 1

\* the spans before their suffix_span is filled in
SpansOf(token_set) ==
    LET strs == SelectSeq([i \in 1..Len(token_set.tokens) |->
                              [content |-> "Token", idx |-> i - 1,
                               string |-> token_set.tokens[i].s,
                               suffix_span |-> 0, cost |-> 1,
                               ext |-> token_set.tokens[i].ext]],
                          LAMBDA r : ~r.ext)
        tokens == [i \in 1..Len(strs) |->
                      [content |-> "Token", idx |-> strs[i].idx,
                       string |-> strs[i].string, suffix_span |-> 0, cost |-> 1]]
        seqs == [i \in 1..Len(token_set.sequences) |->
                    [content |-> "Sequence", idx |-> i - 1,
                     string |-> token_set.sequences[i].string,
                     suffix_span |-> 0,
                     cost |-> Len(token_set.sequences[i].tokens)]]
    IN  <<[content |-> "None", idx |-> 0, string |-> <<>>, suffix_span |-> 0, cost |-> 0]>>
        \o tokens \o seqs

\* the assertions of create_spans: no two spans have the same string
create_spans_ok(token_set) ==
    LET spans == SpansOf(token_set)
    IN  \A i, j \in 1..Len(spans) : spans[i].string = spans[j].string => i = j

\* a suffix_span that is the shortest proper suffix that is a span
suffix_span_shortest(spans, string) ==
    LET starts == {st \in 1..(Len(string) - 1) : SpanByStr(spans, SuffixFrom(string, st)) >= 0}
    IN  IF starts = {} THEN 0
        ELSE SpanByStr(spans, SuffixFrom(string, CHOOSE st \in starts : \A o \in starts : st >= o))

\* the first span found among string[start..] for start = 1 .. len - 1, else 0
suffix_span_of(spans, string) ==
    LET starts == {st \in 1..(Len(string) - 1) : SpanByStr(spans, SuffixFrom(string, st)) >= 0}
    IN  IF starts = {} THEN 0
        ELSE SpanByStr(spans, SuffixFrom(string, CHOOSE st \in starts : \A o \in starts : st <= o))

create_spans(token_set) ==
    LET spans == SpansOf(token_set)
    IN  [i \in 1..Len(spans) |->
            IF i = 1 THEN spans[i]
            ELSE [spans[i] EXCEPT !.suffix_span = suffix_span_of(spans, spans[i].string)]]

\* the prefixes string[..end], end = 1 .. len, of every span, in the order of
\* the two loops of create_suffix_states
RECURSIVE SpanPrefixes(_, _)
SpanPrefixes(spans, i) ==
    IF i > Len(spans) THEN <<>>
    ELSE [end \in 1..Len(spans[i].string) |-> PrefixTo(spans[i].string, end)]
         \o SpanPrefixes(spans, i + 1)

\* v without the repetitions of an earlier element (state_by_str.contains_key)
RECURSIVE Dedup(_, _)
Dedup(v, seen) ==
    IF v = <<>> THEN <<>>
    ELSE IF Head(v) \in seen THEN Dedup(Tail(v), seen)
    ELSE <<Head(v)>> \o Dedup(Tail(v), seen \cup {Head(v)})

\* the first start = 0 .. len - 1 for which string[start..] satisfies Found, as
\* that suffix; <<>> when there is none
LongestSuffix(string, Found(_)) ==
    LET starts == {st \in 0..(Len(string) - 1) : Found(SuffixFrom(string, st))}
    IN  IF starts = {} THEN <<>>
        ELSE SuffixFrom(string, CHOOSE st \in starts : \A o \in starts : st <= o)

\* state_by_str.get(s), -1 for None
StateByStr(suffixes, s) ==
    LET hits == {i \in 1..Len(suffixes) : suffixes[i] = s}
    IN  IF hits = {} THEN -1 ELSE (CHOOSE i \in hits : TRUE) - 1

create_suffix_states(spans) ==
    Bind(<<<<>>>> \o Dedup(SpanPrefixes(spans, 1), {<<>>}), LAMBDA suffixes :
        LET span_idx(suffix) ==
                Bind(LongestSuffix(suffix, LAMBDA x : SpanByStr(spans, x) >= 0),
                     LAMBDA found :
                        IF found = <<>> THEN 0 ELSE SpanByStr(spans, found))
            next(suffix, byte) ==
                Bind(LongestSuffix(Append(suffix, byte),
                                   LAMBDA x : StateByStr(suffixes, x) >= 0),
                     LAMBDA found :
                        IF found = <<>> THEN 0 ELSE StateByStr(suffixes, found))
        IN  [i \in 1..Len(suffixes) |->
                [suffix |-> suffixes[i],
                 span_idx |-> IF i = 1 THEN 0 ELSE span_idx(suffixes[i]),
                 next |-> [byte \in ByteValues |-> next(suffixes[i], byte)]]])

\* the assertions of create_suffix_states: suffix_span > 0 and suffix_id > 0
create_suffix_states_ok(spans) ==
    LET states == create_suffix_states(spans)
    IN  /\ \A i \in 2..Len(states) : states[i].span_idx > 0
        /\ \A i \in 1..Len(states) : \A b \in ByteValues : states[i].next[b] > 0

\* FragmentTokenizer::new returns (none of its assertions fails)
FragmentTokenizerNewOk(token_set) ==
    /\ create_spans_ok(token_set)
    /\ create_suffix_states_ok(create_spans(token_set))

FragmentTokenizerNew(token_set) ==
    Bind(create_spans(token_set), LAMBDA spans :
        [token_set |-> token_set,
         spans |-> spans,
         suffix_states |-> create_suffix_states(spans)])

NoCost == [cost |-> -1, span |-> 0]

\* the while loop of process_slice that stops at the first span of the chain
\* (the longest span ending here)
RECURSIVE BestCostFirstOnly(_, _, _, _)
BestCostFirstOnly(tokenizer, cost_state, span_idx, best) ==
    IF span_idx = 0 THEN best
    ELSE LET span == At(tokenizer.spans, span_idx)
             prev_cost == At(cost_state, Len(cost_state) - Len(span.string)).cost
         IN  [cost |-> prev_cost + span.cost, span |-> span_idx]

\* the while loop of process_slice with >= in place of >: of the spans with
\* the least cost the one met last is recorded
RECURSIVE BestCostLastMet(_, _, _, _)
BestCostLastMet(tokenizer, cost_state, span_idx, best) ==
    IF span_idx = 0 THEN best
    ELSE Bind(At(tokenizer.spans, span_idx), LAMBDA span :
         Bind(At(cost_state, Len(cost_state) - Len(span.string)).cost,
              LAMBDA prev_cost :
         Bind(prev_cost + span.cost, LAMBDA cost :
         Bind(IF best = NoCost \/ best.cost >= cost
              THEN [cost |-> cost, span |-> span_idx]
              ELSE best, LAMBDA better :
            BestCostLastMet(tokenizer, cost_state, span.suffix_span, better)))))

\* the while loop of process_slice: the walk down the suffix chain
RECURSIVE BestCost(_, _, _, _)
BestCost(tokenizer, cost_state, span_idx, best) ==
    IF span_idx = 0 THEN best
    ELSE Bind(At(tokenizer.spans, span_idx), LAMBDA span :
         Bind(At(cost_state, Len(cost_state) - Len(span.string)).cost,
              LAMBDA prev_cost :
         Bind(prev_cost + span.cost, LAMBDA cost :
         Bind(IF best = NoCost \/ best.cost > cost
              THEN [cost |-> cost, span |-> span_idx]
              ELSE best, LAMBDA better :
            BestCost(tokenizer, cost_state, span.suffix_span, better)))))

\* the for loop of process_slice from byte number p (1-based) on
RECURSIVE CostStates(_, _, _, _, _)
CostStates(tokenizer, bytes, p, state_id, cost_state) ==
    IF p > Len(bytes) THEN cost_state
    ELSE Bind(At(tokenizer.suffix_states, state_id).next[bytes[p]],
              LAMBDA next_id :
         Bind(At(tokenizer.suffix_states, next_id), LAMBDA state :
         Bind(BestCost(tokenizer, cost_state, state.span_idx, NoCost),
              LAMBDA best :
         Bind(Append(cost_state, best), LAMBDA pushed :
            CostStates(tokenizer, bytes, p + 1, next_id, pushed)))))

\* a traceback that keeps the token to the right across a fallback sequence
RECURSIVE TracebackKeepsChain(_, _, _, _, _, _)
TracebackKeepsChain(tokenizer, cost_state, pos, next_token, n, acc) ==
    IF pos = 0 THEN acc
    ELSE Bind(At(cost_state, pos).span, LAMBDA span_idx :
         Bind(At(tokenizer.spans, span_idx), LAMBDA span :
         Bind(span.content = "Token", LAMBDA is_token :
         Bind(IF is_token /\ next_token >= 0
              THEN Incr(acc.pair_counts, span.idx * n + next_token)
              ELSE acc.pair_counts, LAMBDA pairs :
         Bind([span_counts |-> Incr(acc.span_counts, span_idx),
               pair_counts |-> pairs], LAMBDA counted :
            TracebackKeepsChain(tokenizer, cost_state, pos - Len(span.string),
                                IF is_token THEN span.idx ELSE next_token, n,
                                counted))))))

\* the traceback of update_stats: acc holds span_counts and pair_counts
RECURSIVE Traceback(_, _, _, _, _, _)
Traceback(tokenizer, cost_state, pos, next_token, n, acc) ==
    IF pos = 0 THEN acc
    ELSE Bind(At(cost_state, pos).span, LAMBDA span_idx :
         Bind(At(tokenizer.spans, span_idx), LAMBDA span :
         Bind(span.content = "Token", LAMBDA is_token :
         Bind(IF is_token /\ next_token >= 0
              THEN Incr(acc.pair_counts, span.idx * n + next_token)
              ELSE acc.pair_counts, LAMBDA pairs :
         Bind([span_counts |-> Incr(acc.span_counts, span_idx),
               pair_counts |-> pairs], LAMBDA counted :
            Traceback(tokenizer, cost_state, pos - Len(span.string),
                      IF is_token THEN span.idx ELSE -1, n, counted))))))

\* a projection loop that counts each token of a sequence once, however
\* often it stands in the sequence's token list
RECURSIVE ProjectCountsTokensOnce(_, _, _, _)
ProjectCountsTokensOnce(tokenizer, span_counts, span_idx, st) ==
    IF span_idx >= Len(tokenizer.spans) THEN st
    ELSE Bind(At(span_counts, span_idx), LAMBDA count :
         Bind(At(tokenizer.spans, span_idx), LAMBDA span :
         Bind(IF span.content = "Sequence"
              THEN LET seq == At(st.token_set.sequences, span.idx)
                   IN  [st EXCEPT
                          !.seq_counts = [@ EXCEPT ![span.idx + 1] = @ + count],
                          !.token_counts = [i \in 1..Len(st.token_counts) |->
                                               @[i] + IF (i - 1) \in Range(seq.tokens)
                                                      THEN count ELSE 0]]
              ELSE [st EXCEPT !.token_counts = [@ EXCEPT ![span.idx + 1] = @ + count]],
              LAMBDA projected :
            ProjectCountsTokensOnce(tokenizer, span_counts, span_idx + 1, projected))))

\* the projection loop of update_stats from span number span_idx on
RECURSIVE Project(_, _, _, _)
Project(tokenizer, span_counts, span_idx, st) ==
    IF span_idx >= Len(tokenizer.spans) THEN st
    ELSE Bind(At(span_counts, span_idx), LAMBDA count :
         Bind(At(tokenizer.spans, span_idx), LAMBDA span :
         Bind(IF span.content = "Sequence"
              THEN LET seq == At(st.token_set.sequences, span.idx)
                       times(token_id) ==
                           Cardinality({j \in 1..Len(seq.tokens) :
                                           seq.tokens[j] = token_id})
                   IN  [st EXCEPT
                          !.seq_counts = [@ EXCEPT ![span.idx + 1] = @ + count],
                          !.token_counts = [i \in 1..Len(st.token_counts) |->
                                               @[i] + count * times(i - 1)]]
              ELSE [st EXCEPT !.token_counts = [@ EXCEPT ![span.idx + 1] = @ + count]],
              LAMBDA projected :
            Project(tokenizer, span_counts, span_idx + 1, projected))))

\* an update_stats that stores the slice's token count in total_tokens
\* (= in place of +=)
update_stats_overwrites_total(tokenizer, cost_state, bytes, st) ==
    Bind(ntokens(st.token_set), LAMBDA n :
    Bind(Traceback(tokenizer, cost_state, Len(bytes), -1, n,
                   [span_counts |-> Zeros(Len(tokenizer.spans)),
                    pair_counts |-> st.pair_counts]), LAMBDA traced :
    Bind([st EXCEPT !.total_tokens = Last(cost_state).cost,
                    !.scanned_bytes = @ + Len(bytes),
                    !.pair_counts = traced.pair_counts], LAMBDA totalled :
        Project(tokenizer, traced.span_counts, 1, totalled))))

update_stats(tokenizer, cost_state, bytes, st) ==
    Bind(ntokens(st.token_set), LAMBDA n :
    Bind(Traceback(tokenizer, cost_state, Len(bytes), -1, n,
                   [span_counts |-> Zeros(Len(tokenizer.spans)),
                    pair_counts |-> st.pair_counts]), LAMBDA traced :
    Bind([st EXCEPT !.total_tokens = @ + Last(cost_state).cost,
                    !.scanned_bytes = @ + Len(bytes),
                    !.pair_counts = traced.pair_counts], LAMBDA totalled :
        Project(tokenizer, traced.span_counts, 1, totalled))))

\* the TokenStats after process_slice(bytes, stats, buffer)
process_slice(tokenizer, bytes, st) ==
    Bind(tokenizer, LAMBDA engine :
    Bind(st, LAMBDA stats_in :
    Bind(CostStates(engine, bytes, 1, 0, <<[cost |-> 0, span |-> 0]>>),
         LAMBDA cost_state :
        update_stats(engine, cost_state, bytes, stats_in))))


-----------------------------------------------------------------------------
(* optimize_bytes.rs: the byte optimizers.  A panic (an index out of range,  *)
(* an unwrap of None, panic!) is the value Panic.                            *)

Panic == [panic |-> TRUE]

IsPanic(x) == DOMAIN x = {"panic"}

\* the multi-byte Str tokens of token_set, in order, as byte strings
LongStrings(token_set) ==
    LET long == SelectSeq(token_set.tokens, LAMBDA tk : ~tk.ext /\ Len(tk.s) > 1)
    IN  [i \in 1..Len(long) |-> long[i].s]

\* byte_counts of SimpleBytesOptimizer: the count of the last single-byte Str
\* token or, after it, of the last one-byte sequence of that byte, else 0
SimpleByteCount(st, byte) ==
    LET toks == {i \in 1..Len(st.token_set.tokens) :
                    ~st.token_set.tokens[i].ext /\ st.token_set.tokens[i].s = <<byte>>}
        seqs == {i \in 1..Len(st.token_set.sequences) :
                    st.token_set.sequences[i].string = <<byte>>}
    IN  IF seqs # {} THEN st.seq_counts[CHOOSE i \in seqs : \A j \in seqs : j <= i]
        ELSE IF toks # {} THEN st.token_counts[CHOOSE i \in toks : \A j \in toks : j <= i]
        ELSE 0

\* &bytes[..n_byte_tokens] after the stable sort by descending count
SimpleSelected(st, n_byte_tokens) ==
    LET sorted == StableSort(ByteList,
                      LAMBDA x, y : SimpleByteCount(st, x) > SimpleByteCount(st, y))
    IN  [i \in 1..n_byte_tokens |-> <<sorted[i]>>]

SimpleOptimizeBytes(st, n_byte_ext_tokens) ==
    LET n_byte_tokens == n_byte_ext_tokens - st.token_set.n_ext_tokens
        kind == st.token_set.token_type
        fresh == CASE kind = "Bits1" ->
                        new_bits1(st.token_set.processing, st.token_set.split_paragraphs)
                   [] kind = "Bits2" ->
                        new_bits2(st.token_set.processing, st.token_set.split_paragraphs)
                   [] OTHER ->
                        new_bits4(st.token_set.processing, st.token_set.split_paragraphs)
    IN  IF \/ n_byte_tokens < 0
           \/ n_byte_tokens > Cardinality(ByteValues)
           \/ kind \notin {"Bits1", "Bits2", "Bits4"}
        THEN Panic
        ELSE AddTokens(AddTokens(fresh, SimpleSelected(st, n_byte_tokens)),
                       LongStrings(st.token_set))

NoopOptimizeBytes(st, n_byte_tokens) == st.token_set

\* A HuffmanNode with what node_to_split computes from it: a leaf is its own
\* lo and top; an internal node takes the top of its first child only when
\* that child's top_count is strictly greater.
Leaf(c) == [count |-> c.count, lo |-> c.ch, top |-> c.ch, top_count |-> c.count]

Internal(first, second) ==
    [count |-> first.count + second.count,
     lo |-> Min(first.lo, second.lo),
     top |-> IF first.top_count > second.top_count THEN first.top ELSE second.top,
     top_count |-> IF first.top_count > second.top_count
                   THEN first.top_count ELSE second.top_count]

\* a while loop of optimize_splits that always merges the first two nodes
RECURSIVE MergeNodesFirstPair(_, _)
MergeNodesFirstPair(nodes, parts) ==
    IF Len(nodes) <= parts \/ Len(nodes) < 2 THEN nodes
    ELSE MergeNodesFirstPair(<<Internal(nodes[1], nodes[2])>>
                             \o SubSeq(nodes, 3, Len(nodes)), parts)

\* the while loop of optimize_splits
RECURSIVE MergeNodes(_, _)
MergeNodes(nodes, parts) ==
    IF Len(nodes) <= parts \/ Len(nodes) < 2 THEN nodes
    ELSE LET pair_count(i) == nodes[i].count + nodes[i + 1].count
             best == CHOOSE i \in 1..(Len(nodes) - 1) :
                        /\ \A j \in 1..(i - 1) : pair_count(j) > pair_count(i)
                        /\ \A j \in i..(Len(nodes) - 1) : pair_count(j) >= pair_count(i)
         IN  MergeNodes(SubSeq(nodes, 1, best - 1)
                        \o <<Internal(nodes[best], nodes[best + 1])>>
                        \o SubSeq(nodes, best + 2, Len(nodes)), parts)

\* best_idx.unwrap() of optimize_splits fails: one node is left and fewer
\* parts are asked for
optimize_splits_panics(counts, parts) == Len(counts) >= 1 /\ parts < 1

\* counts is a sequence of [ch, count], increasing in ch
optimize_splits(counts, parts) ==
    MergeNodes([i \in 1..Len(counts) |-> Leaf(counts[i])], parts)

\* counts.binary_search(&(ch, 0)).unwrap_err(): every count is at least 1, so
\* the search fails and gives the number of entries below (ch, 0)
SearchPos(counts, ch) == Cardinality({i \in 1..Len(counts) : counts[i].ch < ch})

\* counts[counts_lo..counts_hi] of split i without its top
SubCounts(counts, splits, i) ==
    LET counts_lo == SearchPos(counts, splits[i].lo)
        counts_hi == IF i = Len(splits) THEN Len(counts)
                     ELSE SearchPos(counts, splits[i + 1].lo)
        group == SubSeq(counts, counts_lo + 1, counts_hi)
    IN  SelectSeq(group, LAMBDA c : c.ch # splits[i].top)

\* Vec<(u8, Vec<usize>)> as a sequence of [ch, enc]
RECURSIVE optimize_ext_encoding(_, _)
RECURSIVE ExtEncodingOfSplits(_, _, _, _)

\* a loop of optimize_ext_encoding that leaves out the split's number in
\* front of the encodings of the bytes under it
RECURSIVE ExtEncodingWithoutPrefix(_, _, _, _)
ExtEncodingWithoutPrefix(counts, splits, i, n_ext_tokens) ==
    IF i > Len(splits) THEN <<>>
    ELSE LET sub_counts == SubCounts(counts, splits, i)
             sub_encs == IF sub_counts = <<>> THEN <<>>
                         ELSE optimize_ext_encoding(sub_counts, n_ext_tokens)
         IN  <<[ch |-> splits[i].top, enc |-> <<i - 1>>]>>
             \o sub_encs
             \o ExtEncodingWithoutPrefix(counts, splits, i + 1, n_ext_tokens)

\* the for loop of optimize_ext_encoding from split i on
ExtEncodingOfSplits(counts, splits, i, n_ext_tokens) ==
    IF i > Len(splits) THEN <<>>
    ELSE LET sub_counts == SubCounts(counts, splits, i)
             sub_encs == IF sub_counts = <<>> THEN <<>>
                         ELSE optimize_ext_encoding(sub_counts, n_ext_tokens)
         IN  <<[ch |-> splits[i].top, enc |-> <<i - 1>>]>>
             \o [j \in 1..Len(sub_encs) |->
                    [ch |-> sub_encs[j].ch, enc |-> <<i - 1>> \o sub_encs[j].enc]]
             \o ExtEncodingOfSplits(counts, splits, i + 1, n_ext_tokens)

optimize_ext_encoding(counts, n_ext_tokens) ==
    IF Len(counts) <= n_ext_tokens
    THEN [i \in 1..Len(counts) |-> [ch |-> counts[i].ch, enc |-> <<i - 1>>]]
    ELSE ExtEncodingOfSplits(counts, optimize_splits(counts, n_ext_tokens), 1, n_ext_tokens)

\* the for loop of optimize_bytes_tokenset from split i on
RECURSIVE AddSplits(_, _, _, _, _)
AddSplits(token_set, counts, top_splits, i, n_ext_tokens) ==
    IF i > Len(top_splits) THEN token_set
    ELSE LET top_token_id == Len(token_set.tokens)
             with_top == add_token(token_set, <<top_splits[i].top>>)
             sub_counts == SubCounts(counts, top_splits, i)
             encs == IF sub_counts = <<>> THEN <<>>
                     ELSE optimize_ext_encoding(sub_counts, n_ext_tokens)
             with_seqs == [with_top EXCEPT !.sequences = @ \o
                              [j \in 1..Len(encs) |->
                                  [string |-> <<encs[j].ch>>,
                                   tokens |-> <<top_token_id>> \o encs[j].enc]]]
         IN  AddSplits(with_seqs, counts, top_splits, i + 1, n_ext_tokens)

optimize_bytes_tokenset(counts, n_char_tokens, n_ext_tokens, processing) ==
    LET top_splits == optimize_splits(counts, n_char_tokens)
    IN  IF optimize_splits_panics(counts, n_char_tokens) THEN Panic
        ELSE AddSplits(TokenSetNew(n_ext_tokens, processing, "BytesHuff", TRUE),
                       counts, top_splits, 1, n_ext_tokens)

\* counts of HuffOptimizer: 1 + the count of the byte's last single-byte Str
\* token or, after it, of its last sequence
HuffCounts(st) ==
    [i \in 1..Len(ByteList) |->
        [ch |-> ByteList[i], count |-> SimpleByteCount(st, ByteList[i]) + 1]]

\* the total HuffOptimizer computes for a candidate
HuffTotal(token_set, counts) ==
    LET count_of(s) == (CHOOSE c \in Range(counts) : c.ch = s[1]).count
        RECURSIVE SumTok(_)
        SumTok(i) == IF i = 0 THEN 0
                     ELSE SumTok(i - 1) + IF token_set.tokens[i].ext THEN 0
                                          ELSE count_of(token_set.tokens[i].s)
        RECURSIVE SumSeq(_)
        SumSeq(i) == IF i = 0 THEN 0
                     ELSE SumSeq(i - 1) + count_of(token_set.sequences[i].string)
                                          * Len(token_set.sequences[i].tokens)
    IN  SumTok(Len(token_set.tokens)) + SumSeq(Len(token_set.sequences))

\* the for loop of HuffOptimizer::optimize_bytes from n_ext_tokens on; best is
\* [token_set, total], with total = -1 for None
RECURSIVE HuffBest(_, _, _, _, _, _)
HuffBest(counts, n_byte_ext_tokens, n_ext_tokens, max_ext_tokens, processing, best) ==
    IF n_ext_tokens > max_ext_tokens THEN best
    ELSE LET token_set == optimize_bytes_tokenset(counts, n_byte_ext_tokens - n_ext_tokens,
                                                  n_ext_tokens, processing)
             total == HuffTotal(token_set, counts)
         IN  HuffBest(counts, n_byte_ext_tokens, n_ext_tokens + 1, max_ext_tokens, processing,
                      IF best.total = -1 \/ total < best.total
                      THEN [token_set |-> token_set, total |-> total]
                      ELSE best)

\* a HuffOptimizer that appends the multi-byte tokens but the last
HuffOptimizeBytesDropsLast(st, n_byte_ext_tokens) ==
    LET counts == HuffCounts(st)
        max_ext_tokens == Min(n_byte_ext_tokens - 1, 8)
        best == HuffBest(counts, n_byte_ext_tokens, 2, max_ext_tokens,
                         st.token_set.processing, [token_set |-> Panic, total |-> -1])
        long == LongStrings(st.token_set)
    IN  IF \/ n_byte_ext_tokens < 3
           \/ \E q \in Range(st.token_set.sequences) : Len(q.string) # 1
        THEN Panic
        ELSE AddTokens(best.token_set, SubSeq(long, 1, Len(long) - 1))

HuffOptimizeBytes(st, n_byte_ext_tokens) ==
    LET counts == HuffCounts(st)
        max_ext_tokens == Min(n_byte_ext_tokens - 1, 8)
        best == HuffBest(counts, n_byte_ext_tokens, 2, max_ext_tokens,
                         st.token_set.processing, [token_set |-> Panic, total |-> -1])
    IN  IF \/ n_byte_ext_tokens < 3
           \/ \E q \in Range(st.token_set.sequences) : Len(q.string) # 1
        THEN Panic
        ELSE AddTokens(best.token_set, LongStrings(st.token_set))

\* BO::optimize_bytes for the optimizer the kind selects in optimize_tokenset
optimize_bytes(st, n_byte_ext_tokens) ==
    CASE st.token_set.token_type \in {"Bits1", "Bits2", "Bits4"} ->
            SimpleOptimizeBytes(st, n_byte_ext_tokens)
      [] st.token_set.token_type = "Bytes" -> NoopOptimizeBytes(st, n_byte_ext_tokens)
      [] st.token_set.token_type = "BytesHuff" -> HuffOptimizeBytes(st, n_byte_ext_tokens)


-----------------------------------------------------------------------------
(* batch_tokenize.rs: the single-threaded scan and the cache *)

\* sampler.total_size() below which tokenize_file scans on the calling thread
SyncThreshold == 33554432

\* capacity of the work channel
JobsCapacity == 4

RECURSIVE SumLen(_)
SumLen(smp) == IF smp = <<>> THEN 0 ELSE Len(Head(smp)) + SumLen(Tail(smp))

\* the for loop of tokenize_file_sync
RECURSIVE ProcessAll(_, _, _)
ProcessAll(tokenizer, smp, st) ==
    IF smp = <<>> THEN st
    ELSE ProcessAll(tokenizer, Tail(smp), process_slice(tokenizer, Head(smp), st))

tokenize_file_sync(token_set, smp) ==
    IF ~FragmentTokenizerNewOk(token_set) THEN Panic
    ELSE ProcessAll(FragmentTokenizerNew(token_set), smp, TokenStatsNew(token_set))

\* What the multi-worker path of tokenize_file returns when no worker fails:
\* the merge of the workers' private stats into TokenStats::new.  Every
\* distribution of the samples over the workers merges to the same value, so
\* one worker that takes every sample stands for them all here; the
\* interleavings themselves are the actions of SpecPar below.
tokenize_file_workers(token_set, smp) ==
    IF ~FragmentTokenizerNewOk(token_set) THEN Panic
    ELSE merge(TokenStatsNew(token_set),
               ProcessAll(FragmentTokenizerNew(token_set), smp, TokenStatsNew(token_set)))

tokenize_file(token_set, smp) ==
    IF SumLen(smp) < SyncThreshold
    THEN tokenize_file_sync(token_set, smp)
    ELSE tokenize_file_workers(token_set, smp)

\* get_key without the sort of its callers' argument is the same function:
\* the JSON text of the vocabulary it is given.  serde_json::to_string is
\* one-to-one on these values, so the value stands for its text.
get_key_lossy(token_set) ==
    LET value == to_json(token_set)
    IN  [value EXCEPT !.tokens =
            [i \in 1..Len(token_set.tokens) |->
                IF token_set.tokens[i].ext THEN JNum(token_set.tokens[i].k)
                ELSE bytes_to_json_lossy(token_set.tokens[i].s)]]

\* a key made of what TokenSet::name() shows: size, processing and kind
get_key_by_name(token_set) ==
    [ntokens |-> ntokens(token_set),
     processing |-> ProcessingToJson(token_set.processing),
     type |-> TokenTypeToJson(token_set.token_type)]

get_key(token_set) == to_json(token_set)

\* TokenStats::clone_without_pairs is called at batch_tokenize.rs:129 and
\* defined nowhere in the sources; the specification says the pair counts
\* "are zeroed after caching".
clone_without_pairs(st) == [st EXCEPT !.pair_counts = Zeros(Len(st.pair_counts))]

CacheInsert(c, key, st) ==
    [k \in DOMAIN c \cup {key} |-> IF k = key THEN st ELSE c[k]]

\* get_stats_with_pairs: [cache, stats] after the call, or Panic
get_stats_with_pairs(c, token_set, smp) ==
    Bind(sort(token_set), LAMBDA sorted :
    Bind(tokenize_file(sorted, smp), LAMBDA st :
        IF IsPanic(st) THEN Panic
        ELSE [cache |-> CacheInsert(c, get_key(sorted), clone_without_pairs(st)),
              stats |-> st]))

\* get_stats: [cache, stats] after the call, or Panic
get_stats(c, token_set, smp) ==
    Bind(sort(token_set), LAMBDA sorted :
    Bind(get_key(sorted), LAMBDA key :
        IF key \in DOMAIN c THEN [cache |-> c, stats |-> c[key]]
        ELSE Bind(tokenize_file(sorted, smp), LAMBDA st :
                 IF IsPanic(st) THEN Panic
                 ELSE Bind([st EXCEPT !.pair_counts = <<>>], LAMBDA cleared :
                          [cache |-> CacheInsert(c, key, cleared), stats |-> cleared]))))

-----------------------------------------------------------------------------
(* optimize.rs *)

None == [none |-> TRUE]

IsNone(x) == DOMAIN x = {"none"}

is_valid_token(s) ==
    \A i \in 0..(Len(s) - 3) : ~(At(s, i) = 10 /\ At(s, i + 1) = 10 /\ At(s, i + 2) # 10)

\* a concatenation that yields the bytes of the pair's first token alone
PairConcatFirstOnly(st, pair_idx) ==
    At(st.token_set.tokens, pair_idx \div ntokens(st.token_set)).s

\* the concatenation of the pair with flat index pair_idx
PairConcat(st, pair_idx) ==
    At(st.token_set.tokens, pair_idx \div ntokens(st.token_set)).s
    \o At(st.token_set.tokens, pair_idx % ntokens(st.token_set)).s

\* the pairs of positive count, by descending count (stable), as flat indices
SortedPairs(st) ==
    LET positive == SelectSeq([i \in 1..Len(st.pair_counts) |-> i - 1],
                             LAMBDA i : At(st.pair_counts, i) > 0)
    IN  StableSort(positive, LAMBDA x, y : At(st.pair_counts, x) > At(st.pair_counts, y))

\* Option<(TokenSet, i64)>: [token_set, count] or None
add_token_bpe(st) ==
    LET pairs == SortedPairs(st)
        valid == {p \in 1..Len(pairs) : is_valid_token(PairConcat(st, pairs[p]))}
        first == CHOOSE p \in valid : \A q \in valid : p <= q
    IN  IF pairs = <<>> THEN None
        ELSE IF valid # {}
        THEN [token_set |-> add_token(st.token_set, PairConcat(st, pairs[first])),
              count |-> At(st.pair_counts, pairs[first])]
        \* no pair is valid: new_token is the last concatenation the loop built
        ELSE [token_set |-> add_token(st.token_set, PairConcat(st, Last(pairs))),
              count |-> 0]

\* byte_cost of count_tokens_in_bytes, -1 for None
ByteCost(token_set, byte) ==
    LET seqs == {i \in 1..Len(token_set.sequences) : token_set.sequences[i].string = <<byte>>}
    IN  IF \E i \in 1..Len(token_set.tokens) :
              ~token_set.tokens[i].ext /\ token_set.tokens[i].s = <<byte>>
        THEN 1
        ELSE IF seqs # {} THEN Len(token_set.sequences[CHOOSE i \in seqs : TRUE].tokens)
        ELSE -1

\* the assertions and unwraps of count_tokens_in_bytes succeed
count_tokens_in_bytes_ok(token_set, st) ==
    /\ \A b \in ByteValues :
          Cardinality({i \in 1..Len(token_set.tokens) :
                          ~token_set.tokens[i].ext /\ token_set.tokens[i].s = <<b>>})
          + Cardinality({i \in 1..Len(token_set.sequences) :
                          token_set.sequences[i].string = <<b>>}) <= 1
    /\ \A i \in 1..Len(st.token_set.tokens) :
          ~st.token_set.tokens[i].ext /\ Len(st.token_set.tokens[i].s) = 1
              => ByteCost(token_set, st.token_set.tokens[i].s[1]) >= 0
    /\ \A i \in 1..Len(st.token_set.sequences) :
          Len(st.token_set.sequences[i].string) = 1
              => ByteCost(token_set, st.token_set.sequences[i].string[1]) >= 0

count_tokens_in_bytes(token_set, st) ==
    LET RECURSIVE SumTok(_)
        SumTok(i) ==
            IF i = 0 THEN 0
            ELSE SumTok(i - 1)
                 + IF ~st.token_set.tokens[i].ext /\ Len(st.token_set.tokens[i].s) = 1
                   THEN ByteCost(token_set, st.token_set.tokens[i].s[1]) * st.token_counts[i]
                   ELSE 0
        RECURSIVE SumSeq(_)
        SumSeq(i) ==
            IF i = 0 THEN 0
            ELSE SumSeq(i - 1)
                 + IF Len(st.token_set.sequences[i].string) = 1
                   THEN ByteCost(token_set, st.token_set.sequences[i].string[1])
                        * st.seq_counts[i]
                   ELSE 0
    IN  SumTok(Len(st.token_set.tokens)) + SumSeq(Len(st.token_set.sequences))

\* the number of byte and Ext tokens add_byte asks the byte optimizer for
AddByteBudget(token_set) == ntokens(token_set) - n_long_tokens(token_set) + 1

\* Option<(TokenSet, i64)>: [token_set, count], None or Panic
add_byte(st) ==
    IF ~count_tokens_in_bytes_ok(st.token_set, st) THEN Panic
    ELSE Bind(optimize_bytes(st, AddByteBudget(st.token_set)), LAMBDA new_tokenset :
        IF IsPanic(new_tokenset) THEN Panic
        ELSE IF ntokens(new_tokenset) = ntokens(st.token_set) THEN None
        ELSE IF ~count_tokens_in_bytes_ok(new_tokenset, st) THEN Panic
        ELSE [token_set |-> new_tokenset,
              count |-> count_tokens_in_bytes(st.token_set, st)
                        - count_tokens_in_bytes(new_tokenset, st)])

\* add_token of optimize.rs: [cache, result, how] with result a TokenSet or
\* None, or Panic
optimize_add_token(c, token_set, smp) ==
    Bind(get_stats_with_pairs(c, token_set, smp), LAMBDA got :
        IF IsPanic(got) THEN Panic
        ELSE
    Bind(add_byte(got.stats), LAMBDA byte :
        IF IsPanic(byte) THEN Panic
        ELSE
    Bind(add_token_bpe(got.stats), LAMBDA bpe :
        IF IsNone(byte) /\ IsNone(bpe)
        THEN [cache |-> got.cache, result |-> None, how |-> "none"]
        ELSE IF IsNone(bpe)
        THEN [cache |-> got.cache, result |-> byte.token_set, how |-> "byte"]
        ELSE IF IsNone(byte)
        THEN [cache |-> got.cache, result |-> bpe.token_set, how |-> "bpe"]
        ELSE IF byte.count > bpe.count
        THEN [cache |-> got.cache, result |-> byte.token_set, how |-> "byte"]
        ELSE [cache |-> got.cache, result |-> bpe.token_set, how |-> "bpe"])))

\* removal_count.get(s).unwrap_or(&0)
RemovalCount(rc, s) == IF s \in DOMAIN rc THEN rc[s] ELSE 0

\* *removal_count.entry(s).or_insert(0) += 1
RemovalBump(rc, s) ==
    [k \in DOMAIN rc \cup {s} |-> IF k = s THEN RemovalCount(rc, s) + 1 ELSE rc[k]]

\* What sort_unstable_by_key may leave in to_remove: the multi-byte Str tokens
\* in nondecreasing attempt count, tokens of equal count in any order.
ToRemoveOrders(token_set, rc) ==
    LET to_remove == LongStrings(token_set)
        n == Len(to_remove)
        perms == {f \in [1..n -> 1..n] : \A i, j \in 1..n : f[i] = f[j] => i = j}
    IN  {[i \in 1..n |-> to_remove[f[i]]] : f \in
            {g \in perms : \A i \in 1..(n - 1) :
                RemovalCount(rc, to_remove[g[i]]) <= RemovalCount(rc, to_remove[g[i + 1]])}}

\* the for loop of remove_add_token over to_remove[i..]: [cache,
\* removal_count, result, how] with result a TokenStats or None, or Panic
RECURSIVE SwapLoop(_, _, _, _, _, _, _, _)
SwapLoop(c, token_set, n, smp, rc, to_remove, i, st) ==
    IF i > Len(to_remove)
    THEN [cache |-> c, removal_count |-> rc, result |-> None, how |-> "none"]
    ELSE
    Bind(RemovalBump(rc, to_remove[i]), LAMBDA bumped :
    Bind(find_token(token_set, to_remove[i]), LAMBDA token_idx :
        IF token_idx < 0 \/ ~remove_token_ok(token_set, token_idx) THEN Panic
        ELSE
    Bind(remove_token(token_set, token_idx), LAMBDA new_token_set :
        IF ntokens(new_token_set) # n - 1 THEN Panic
        ELSE
    Bind(optimize_add_token(c, new_token_set, smp), LAMBDA added :
        IF IsPanic(added) THEN Panic
        ELSE IF IsNone(added.result)
        THEN SwapLoop(added.cache, token_set, n, smp, bumped, to_remove, i + 1, st)
        ELSE
    Bind(get_stats(added.cache, added.result, smp), LAMBDA newer :
        IF IsPanic(newer) THEN Panic
        ELSE IF newer.stats.total_tokens < st.total_tokens
        THEN [cache |-> newer.cache, removal_count |-> bumped,
              result |-> newer.stats, how |-> "swap"]
        ELSE SwapLoop(newer.cache, token_set, n, smp, bumped, to_remove, i + 1, st))))))

\* the first attempt of the swap mode: one single-byte token fewer, then
\* add_token_bpe.  [cache, result] with result a TokenStats or None, or Panic
ShrinkAndAdd(c, token_set, n, smp, st) ==
    IF ntokens(token_set) - n_long_tokens(token_set) <= min_bytes_ext_tokens(token_set)
    THEN [cache |-> c, result |-> None]
    ELSE
    Bind(optimize_bytes(st, ntokens(token_set) - n_long_tokens(token_set) - 1),
         LAMBDA new_token_set :
        IF IsPanic(new_token_set) THEN Panic
        ELSE IF ntokens(new_token_set) # n - 1 THEN Panic
        ELSE
    Bind(get_stats_with_pairs(c, new_token_set, smp), LAMBDA new_stats :
        IF IsPanic(new_stats) THEN Panic
        ELSE
    Bind(add_token_bpe(new_stats.stats), LAMBDA bpe :
        IF IsNone(bpe) THEN [cache |-> new_stats.cache, result |-> None]
        ELSE
    Bind(get_stats(new_stats.cache, bpe.token_set, smp), LAMBDA newer :
        IF IsPanic(newer) THEN Panic
        ELSE IF newer.stats.total_tokens < st.total_tokens
        THEN [cache |-> newer.cache, result |-> newer.stats]
        ELSE [cache |-> newer.cache, result |-> None]))))

\* the add mode of remove_add_token (ntokens < n)
AddMode(c, token_set, smp, rc) ==
    Bind(optimize_add_token(c, token_set, smp), LAMBDA added :
        IF IsPanic(added) THEN Panic
        ELSE IF IsNone(added.result)
        THEN [cache |-> added.cache, removal_count |-> rc, result |-> None, how |-> "none"]
        ELSE
    Bind(get_stats(added.cache, added.result, smp), LAMBDA added_stats :
        IF IsPanic(added_stats) THEN Panic
        ELSE [cache |-> added_stats.cache, removal_count |-> rc,
              result |-> added_stats.stats, how |-> added.how]))

\* remove_add_token with to_remove as the unstable sort left it: [cache,
\* removal_count, result, how] with result a TokenStats or None, or Panic
remove_add_token(c, token_set, n, smp, rc, to_remove) ==
    IF ntokens(token_set) < n THEN AddMode(c, token_set, smp, rc)
    ELSE IF ntokens(token_set) # n THEN Panic
    ELSE
    Bind(get_stats(c, token_set, smp), LAMBDA got :
        IF IsPanic(got) THEN Panic
        ELSE
    Bind(ShrinkAndAdd(got.cache, token_set, n, smp, got.stats), LAMBDA shrunk :
        IF IsPanic(shrunk) THEN Panic
        ELSE IF ~IsNone(shrunk.result)
        THEN [cache |-> shrunk.cache, removal_count |-> rc,
              result |-> shrunk.result, how |-> "shrink"]
        ELSE SwapLoop(shrunk.cache, token_set, n, smp, rc, to_remove, 1, got.stats)))

\* the number of byte and Ext tokens the reshuffle asks for, one too many
ReshuffleBudgetPlusOne(token_set, n) == n - n_long_tokens(token_set) + 1

\* the number of byte and Ext tokens the byte-tail reshuffle asks for
ReshuffleBudget(token_set, n) == n - n_long_tokens(token_set)

\* optimization_step: [cache, removal_count, result, how] with result a
\* TokenSet or None, or Panic
optimization_step(c, token_set, n, smp, rc, to_remove) ==
    Bind(get_stats(c, token_set, smp), LAMBDA got :
        IF IsPanic(got) THEN Panic
        ELSE IF ReshuffleBudget(token_set, n) < 0 THEN Panic
        ELSE
    Bind(optimize_bytes(got.stats, ReshuffleBudget(token_set, n)), LAMBDA new_token_set :
        IF IsPanic(new_token_set) THEN Panic
        ELSE
    Bind(get_stats(got.cache, new_token_set, smp), LAMBDA new_stats :
        IF IsPanic(new_stats) THEN Panic
        ELSE IF new_stats.stats.total_tokens < got.stats.total_tokens
        THEN [cache |-> new_stats.cache, removal_count |-> rc,
              result |-> new_stats.stats.token_set, how |-> "reshuffle"]
        ELSE
    Bind(remove_add_token(new_stats.cache, token_set, n, smp, rc, to_remove), LAMBDA swapped :
        IF IsPanic(swapped) THEN Panic
        ELSE IF IsNone(swapped.result)
        THEN [cache |-> swapped.cache, removal_count |-> swapped.removal_count,
              result |-> None, how |-> "none"]
        ELSE IF ntokens(swapped.result.token_set) > n THEN Panic
        ELSE [cache |-> swapped.cache, removal_count |-> swapped.removal_count,
              result |-> swapped.result.token_set, how |-> swapped.how]))))


-----------------------------------------------------------------------------
(* The vocabularies of the constructors, for processing Raw *)

\* TokenSet::new_bits1(Processing::Raw, true)
FreshBits1 == new_bits1("Raw", TRUE)

\* TokenSet::new_bits2(Processing::Raw, true)
FreshBits2 == new_bits2("Raw", TRUE)

\* TokenSet::new_bits4(Processing::Raw, true)
FreshBits4 == new_bits4("Raw", TRUE)

\* TokenSet::new_bytes(Processing::Raw)
FreshBytes == new_bytes("Raw")

-----------------------------------------------------------------------------
(* Values of the variables a specification does not use *)

NoStats == TokenStatsNew(TokenSetNew(0, "Raw", "Bytes", FALSE))

parVars == <<nthreads, jobs, nsent, closed, lockHolder, wpc, wjob, wstats, wlog,
             results, nmerged>>

optVars == <<cache, ret, budget, removal_count, prev_ts, how, kind_arg, json>>

ParIdle ==
    /\ nthreads = 0
    /\ jobs = <<>>
    /\ nsent = 0
    /\ closed = FALSE
    /\ lockHolder = 0
    /\ wpc = <<>>
    /\ wjob = <<>>
    /\ wstats = <<>>
    /\ wlog = <<>>
    /\ results = <<>>
    /\ nmerged = 0

OptIdle ==
    /\ cache = <<>>
    /\ ret = None
    /\ budget = 0
    /\ removal_count = <<>>
    /\ prev_ts = None
    /\ how = "none"
    /\ kind_arg = "Bytes"
    /\ json = None

\* the byte strings of length lo .. hi over the bytes of alphabet
StringsOver(alphabet, lo, hi) ==
    UNION {[1..n -> alphabet] : n \in lo..hi}

\* the bytes of the slices and tokens of the engine's specification
TextBytes == {10, 97, 98}

-----------------------------------------------------------------------------
(* SpecEngine: a vocabulary is built by a constructor and add_token calls,  *)
(* FragmentTokenizer::new builds the engine, process_slice scans slices.    *)

InitEngine ==
    /\ ts \in {FreshBits1, FreshBytes}
    /\ loaded = None
    /\ stats = NoStats
    /\ slices = <<>>
    /\ pc = "build"
    /\ samples = <<>>
    /\ nadds = 0
    /\ ParIdle
    /\ OptIdle

\* token_set.add_token(token)
AddToken(token) ==
    /\ pc = "build"
    /\ nadds < MaxAdd
    /\ ts' = add_token(ts, token)
    /\ nadds' = nadds + 1
    /\ UNCHANGED <<loaded, stats, slices, pc, samples, parVars, optVars>>

\* FragmentTokenizer::new(token_set.clone()) and TokenStats::new(token_set)
NewTokenizer ==
    /\ pc = "build"
    /\ pc' = IF FragmentTokenizerNewOk(ts) THEN "ready" ELSE "panic"
    /\ stats' = IF FragmentTokenizerNewOk(ts) THEN TokenStatsNew(ts) ELSE stats
    /\ UNCHANGED <<ts, loaded, slices, samples, nadds, parVars, optVars>>

\* tokenizer.process_slice(bytes, &mut stats, &mut buffer)
ProcessSlice(bytes) ==
    /\ pc = "ready"
    /\ Len(slices) < MaxSlices
    /\ stats' = process_slice(FragmentTokenizerNew(ts), bytes, stats)
    /\ slices' = Append(slices, bytes)
    /\ UNCHANGED <<ts, loaded, pc, samples, nadds, parVars, optVars>>

NextEngine ==
    \/ \E token \in StringsOver(TextBytes, 1, MaxTokenLen) : AddToken(token)
    \/ NewTokenizer
    \/ \E bytes \in StringsOver(TextBytes, 0, MaxSliceLen) : ProcessSlice(bytes)

SpecEngine == InitEngine /\ [][NextEngine]_vars

\* The legal segmentations of a byte string, each a sequence of pieces
RECURSIVE Segmentations(_)
Segmentations(bytes) ==
    IF bytes = <<>> THEN {<<>>}
    ELSE UNION {{<<PrefixTo(bytes, k)>> \o rest : rest \in Segmentations(SuffixFrom(bytes, k))}
                    : k \in 1..Len(bytes)}

\* the costs of the spans whose bytes are piece: 1 for a Str token, the
\* length of the token list for a fallback sequence
PieceCosts(token_set, piece) ==
    {1 : i \in {j \in 1..Len(token_set.tokens) :
                    ~token_set.tokens[j].ext /\ token_set.tokens[j].s = piece}}
    \cup {Len(token_set.sequences[i].tokens) :
             i \in {j \in 1..Len(token_set.sequences) : token_set.sequences[j].string = piece}}

SetMin(S) == CHOOSE x \in S : \A y \in S : x <= y

RECURSIVE SegmentationCost(_, _)
SegmentationCost(token_set, seg) ==
    IF seg = <<>> THEN 0
    ELSE SetMin(PieceCosts(token_set, Head(seg))) + SegmentationCost(token_set, Tail(seg))

\* the minimum, over the segmentations whose pieces all are spans, of the
\* summed piece costs
MinSegmentationCost(token_set, bytes) ==
    SetMin({SegmentationCost(token_set, seg) :
               seg \in {g \in Segmentations(bytes) :
                           \A i \in 1..Len(g) : PieceCosts(token_set, g[i]) # {}}})

RECURSIVE SumMinCost(_, _)
SumMinCost(token_set, sl) ==
    IF sl = <<>> THEN 0
    ELSE MinSegmentationCost(token_set, Head(sl)) + SumMinCost(token_set, Tail(sl))

\* C1: process_slice adds to stats.total_tokens exactly the minimum, over all
\* ways to cut the slice into pieces that each are the bytes of a Str token
\* (cost 1) or of a fallback sequence (cost: its number of tokens), of the
\* summed piece costs.
C1_TotalIsMinimum ==
    pc = "ready" => stats.total_tokens = SumMinCost(ts, slices)

\* C1 witness: "ab\n" was scanned with the Str tokens "ab" and "b\n" (and "a")
\* in the vocabulary, where taking the longest token first ("ab", then "\n")
\* is not the only way to cut, and the engine reports 2 tokens.
C1_Witness ==
    /\ pc = "ready"
    /\ slices = << <<97, 98, 10>> >>
    /\ find_token(ts, <<97, 98>>) >= 0
    /\ find_token(ts, <<98, 10>>) >= 0
    /\ find_token(ts, <<97>>) >= 0
    /\ stats.total_tokens = 2


-----------------------------------------------------------------------------
(* SpecPar: the multi-worker path of tokenize_file.  The driver has built   *)
(* the tokenizer and its stats, created the two channels and spawned        *)
(* nthreads workers; it then sends the samples, drops the sender, receives  *)
(* nthreads results, merges them and joins the workers.  The sampler's      *)
(* total_size is at least SyncThreshold; the samples of the model stand for *)
(* the samples of such a corpus.                                            *)

Workers == 1..nthreads

ParVocabularies ==
    {add_token(add_token(FreshBits1, <<97>>), <<98>>), FreshBytes}

ParSamplePool == {<<>>, <<97>>, <<97, 98>>}

InitPar ==
    /\ ts \in ParVocabularies
    /\ samples \in StringsOver(ParSamplePool, 0, MaxSamples)
    /\ nthreads \in 1..MaxThreads
    /\ stats = TokenStatsNew(ts)
    /\ pc = "send"
    /\ jobs = <<>>
    /\ nsent = 0
    /\ closed = FALSE
    /\ lockHolder = 0
    /\ wpc = [w \in 1..nthreads |-> "lock"]
    /\ wjob = [w \in 1..nthreads |-> 0]
    /\ wstats = [w \in 1..nthreads |-> TokenStatsNew(ts)]
    /\ wlog = [w \in 1..nthreads |-> <<>>]
    /\ results = <<>>
    /\ nmerged = 0
    /\ loaded = None
    /\ slices = <<>>
    /\ nadds = 0
    /\ OptIdle

parFixed == <<ts, loaded, slices, samples, nthreads, nadds, optVars>>

\* jobs_tx.send(sample).unwrap(): blocks while the channel holds JobsCapacity
\* samples; the receiver is never dropped, so it does not fail
DriverSend ==
    /\ pc = "send"
    /\ nsent < Len(samples)
    /\ Len(jobs) < JobsCapacity
    /\ jobs' = Append(jobs, nsent + 1)
    /\ nsent' = nsent + 1
    /\ UNCHANGED <<stats, pc, closed, lockHolder, wpc, wjob, wstats, wlog, results,
                   nmerged, parFixed>>

\* std::mem::drop(jobs_tx) after the last sample
DriverClose ==
    /\ pc = "send"
    /\ nsent = Len(samples)
    /\ closed' = TRUE
    /\ pc' = "recv"
    /\ UNCHANGED <<stats, jobs, nsent, lockHolder, wpc, wjob, wstats, wlog, results,
                   nmerged, parFixed>>

\* jobs_rx.lock().unwrap(): the worker takes the mutex of the shared receiver
WorkerLock(w) ==
    /\ wpc[w] = "lock"
    /\ lockHolder = 0
    /\ lockHolder' = w
    /\ wpc' = [wpc EXCEPT ![w] = "recv"]
    /\ UNCHANGED <<stats, pc, jobs, nsent, closed, wjob, wstats, wlog, results,
                   nmerged, parFixed>>

\* a receive that hands the head sample to the worker and leaves it in the
\* channel
WorkerRecvLeavesSample(w) ==
    /\ wpc[w] = "recv"
    /\ lockHolder = w
    /\ jobs # <<>> \/ closed
    /\ lockHolder' = 0
    /\ IF jobs # <<>>
       THEN /\ wjob' = [wjob EXCEPT ![w] = Head(jobs)]
            /\ wpc' = [wpc EXCEPT ![w] = "process"]
            /\ UNCHANGED jobs
       ELSE /\ wpc' = [wpc EXCEPT ![w] = "send"]
            /\ UNCHANGED <<wjob, jobs>>
    /\ UNCHANGED <<stats, pc, nsent, closed, wstats, wlog, results, nmerged, parFixed>>

\* .recv() under the mutex: a sample, or Err once the channel is closed and
\* empty; the guard is dropped at the end of the statement
WorkerRecv(w) ==
    /\ wpc[w] = "recv"
    /\ lockHolder = w
    /\ jobs # <<>> \/ closed
    /\ lockHolder' = 0
    /\ IF jobs # <<>>
       THEN /\ wjob' = [wjob EXCEPT ![w] = Head(jobs)]
            /\ jobs' = Tail(jobs)
            /\ wpc' = [wpc EXCEPT ![w] = "process"]
       ELSE /\ wpc' = [wpc EXCEPT ![w] = "send"]
            /\ UNCHANGED <<wjob, jobs>>
    /\ UNCHANGED <<stats, pc, nsent, closed, wstats, wlog, results, nmerged, parFixed>>

\* assert!(!data.is_empty()); tokenizer.process_slice(data, &mut stats, ..)
WorkerProcess(w) ==
    /\ wpc[w] = "process"
    /\ IF samples[wjob[w]] = <<>>
       THEN /\ wpc' = [wpc EXCEPT ![w] = "panicked"]
            /\ UNCHANGED <<wstats, wlog>>
       ELSE /\ wstats' = [wstats EXCEPT ![w] =
                            process_slice(FragmentTokenizerNew(ts), samples[wjob[w]], @)]
            /\ wlog' = [wlog EXCEPT ![w] = Append(@, wjob[w])]
            /\ wpc' = [wpc EXCEPT ![w] = "lock"]
    /\ UNCHANGED <<stats, pc, jobs, nsent, closed, lockHolder, wjob, results, nmerged,
                   parFixed>>

\* a worker that ends without sending its stats
WorkerExitsWithoutSend(w) ==
    /\ wpc[w] = "send"
    /\ wpc' = [wpc EXCEPT ![w] = "done"]
    /\ UNCHANGED <<stats, pc, jobs, nsent, closed, lockHolder, wjob, wstats, wlog,
                   results, nmerged, parFixed>>

\* results_tx.send(stats).unwrap() and the end of the worker
WorkerSend(w) ==
    /\ wpc[w] = "send"
    /\ results' = Append(results, wstats[w])
    /\ wpc' = [wpc EXCEPT ![w] = "done"]
    /\ UNCHANGED <<stats, pc, jobs, nsent, closed, lockHolder, wjob, wstats, wlog,
                   nmerged, parFixed>>

\* one round of the driver's receive loop: results_rx.recv().unwrap() and
\* stats.merge(&result).  The driver holds results_tx, so recv only returns
\* when a result is there.
DriverRecv ==
    /\ pc = "recv"
    /\ nmerged < nthreads
    /\ results # <<>>
    /\ stats' = merge(stats, Head(results))
    /\ results' = Tail(results)
    /\ nmerged' = nmerged + 1
    /\ pc' = IF nmerged + 1 = nthreads THEN "join" ELSE "recv"
    /\ UNCHANGED <<jobs, nsent, closed, lockHolder, wpc, wjob, wstats, wlog, parFixed>>

\* the join loop and the end of the scope: returns stats, or panics when a
\* joined worker has panicked
DriverJoin ==
    /\ pc = "join"
    /\ \A w \in Workers : wpc[w] \in {"done", "panicked"}
    /\ pc' = IF \E w \in Workers : wpc[w] = "panicked" THEN "panic" ELSE "returned"
    /\ UNCHANGED <<stats, jobs, nsent, closed, lockHolder, wpc, wjob, wstats, wlog,
                   results, nmerged, parFixed>>

NextPar ==
    \/ DriverSend
    \/ DriverClose
    \/ \E w \in Workers : WorkerLock(w)
    \/ \E w \in Workers : WorkerRecv(w)
    \/ \E w \in Workers : WorkerProcess(w)
    \/ \E w \in Workers : WorkerSend(w)
    \/ DriverRecv
    \/ DriverJoin

SpecPar == InitPar /\ [][NextPar]_vars

NonEmptySamples == \A i \in 1..Len(samples) : samples[i] # <<>>

\* C2: for non-empty samples, the stats the multi-worker path returns equal
\* the stats of tokenize_file_sync on the same vocabulary and samples in
\* total_tokens, scanned_bytes, token_counts, seq_counts and pair_counts,
\* whatever the number of workers and their interleaving.
C2_ParallelEqualsSync ==
    (pc = "returned" /\ NonEmptySamples) =>
        LET sync == tokenize_file_sync(ts, samples)
        IN  /\ stats.total_tokens = sync.total_tokens
            /\ stats.scanned_bytes = sync.scanned_bytes
            /\ stats.token_counts = sync.token_counts
            /\ stats.seq_counts = sync.seq_counts
            /\ stats.pair_counts = sync.pair_counts

\* C2 witness: a two-worker scan of two non-empty samples has returned, each
\* worker having processed one sample, and the merged counts of the fields
\* that merge adds are those of the sequential scan.
C2_Witness ==
    /\ pc = "returned"
    /\ NonEmptySamples
    /\ nthreads = 2
    /\ Len(wlog[1]) = 1
    /\ Len(wlog[2]) = 1
    /\ stats.total_tokens = tokenize_file_sync(ts, samples).total_tokens
    /\ stats.token_counts = tokenize_file_sync(ts, samples).token_counts
    /\ stats.total_tokens > 0


-----------------------------------------------------------------------------
(* SpecOpt: optimize_tokenset.  The arguments are the budget N, the corpus, *)
(* kind_arg and the pretrained vocabulary (loaded, or None).  A           *)
(* pretrained vocabulary is of the kind kind_arg names, so that the byte  *)
(* optimizer optimize_tokenset picks is the one of the vocabulary's kind.   *)

OptKinds == {"Bits1", "Bits2", "Bytes", "BytesHuff"}

OptCorpora ==
    { << <<97>> >>,
      << <<97, 98, 97, 98>> >>,
      << <<97, 98>>, <<97, 10, 10, 98>> >>,
      << <<195, 169, 97, 98>> >> }

Pretrained(kind) ==
    IF kind = "Bits1"
    THEN {add_token(FreshBits1, <<97>>),
          add_token(add_token(add_token(FreshBits1, <<97>>), <<98>>), <<97, 98>>)}
    ELSE IF kind = "Bytes"
    THEN {add_token(FreshBytes, <<97, 98>>)}
    ELSE {}

\* the vocabulary optimize_tokenset starts from when none is pretrained and
\* the kind needs no scan
FreshTokenSet(kind) ==
    IF kind = "Bits1" THEN FreshBits1
    ELSE IF kind = "Bits2" THEN FreshBits2
    ELSE IF kind = "Bits4" THEN FreshBits4
    ELSE FreshBytes

InitOpt ==
    /\ kind_arg \in OptKinds
    /\ json = None
    /\ budget \in 2..MaxBudget
    /\ samples \in OptCorpora
    /\ loaded \in {None} \cup {v \in Pretrained(kind_arg) : ntokens(v) <= budget}
    /\ IsNone(loaded) /\ kind_arg # "BytesHuff" => ntokens(FreshTokenSet(kind_arg)) <= budget
    /\ ts = FreshTokenSet(kind_arg)
    /\ pc = "start"
    /\ cache = <<>>
    /\ ret = None
    /\ removal_count = <<>>
    /\ prev_ts = None
    /\ how = "none"
    /\ stats = NoStats
    /\ slices = <<>>
    /\ nadds = 0
    /\ ParIdle

optFixed == <<loaded, stats, slices, samples, budget, kind_arg, json, nadds, parVars>>

\* optimize_tokenset up to its call of optimize_tokenset_impl: the choice of
\* the start vocabulary
Seed ==
    /\ pc = "start"
    /\ IF ~IsNone(loaded)
       THEN ts' = loaded /\ pc' = "impl" /\ cache' = cache
       ELSE IF kind_arg # "BytesHuff"
       THEN ts' = FreshTokenSet(kind_arg) /\ pc' = "impl" /\ cache' = cache
       ELSE \E got \in {get_stats(cache, FreshBytes, samples)} :
              IF IsPanic(got) THEN pc' = "panic" /\ UNCHANGED <<ts, cache>>
              ELSE \E huff \in {HuffOptimizeBytes(got.stats, budget)} :
                     IF IsPanic(huff) THEN pc' = "panic" /\ ts' = ts /\ cache' = got.cache
                     ELSE ts' = huff /\ pc' = "impl" /\ cache' = got.cache
    /\ UNCHANGED <<ret, removal_count, prev_ts, how, optFixed>>

\* optimize_tokenset_impl before its loop
Enter ==
    /\ pc = "impl"
    /\ \E got \in {get_stats(cache, ts, samples)} :
          IF IsPanic(got) THEN pc' = "panic" /\ cache' = cache
          ELSE pc' = "loop" /\ cache' = got.cache
    /\ removal_count' = <<>>
    /\ UNCHANGED <<ts, ret, prev_ts, how, optFixed>>

\* one round of the loop of optimize_tokenset_impl: optimization_step, then
\* the adoption of its vocabulary, or the break, the sort and the last
\* get_stats
Step(to_remove) ==
    /\ pc = "loop"
    /\ \E r \in {optimization_step(cache, ts, budget, samples, removal_count, to_remove)} :
          IF IsPanic(r)
          THEN pc' = "panic" /\ UNCHANGED <<ts, cache, ret, removal_count, prev_ts, how>>
          ELSE IF ~IsNone(r.result)
          THEN /\ ts' = r.result
               /\ prev_ts' = ts
               /\ how' = r.how
               /\ cache' = r.cache
               /\ removal_count' = r.removal_count
               /\ UNCHANGED <<pc, ret>>
          ELSE /\ ts' = sort(ts)
               /\ how' = "none"
               /\ removal_count' = r.removal_count
               /\ \E last \in {get_stats(r.cache, sort(ts), samples)} :
                     IF IsPanic(last) THEN pc' = "panic" /\ cache' = r.cache /\ ret' = ret
                     ELSE pc' = "returned" /\ cache' = last.cache /\ ret' = last.stats
               /\ UNCHANGED prev_ts
    /\ UNCHANGED optFixed

NextOpt ==
    \/ Seed
    \/ Enter
    \/ \E to_remove \in ToRemoveOrders(ts, removal_count) : Step(to_remove)

SpecOpt == InitOpt /\ [][NextOpt]_vars

\* total_tokens of a vocabulary on the training sampler
TotalOn(token_set, smp) == tokenize_file(token_set, smp).total_tokens

Adopted == pc = "loop" /\ how # "none"


\* C3: every vocabulary the loop of optimize_tokenset_impl adopts, by the
\* byte-tail reshuffle, by an add while ntokens(V) < N or by a swap at
\* ntokens(V) = N, has strictly fewer total_tokens on the training sampler
\* than the vocabulary it replaces.
C3_AdoptedStrictlyFewer ==
    Adopted => TotalOn(ts, samples) < TotalOn(prev_ts, samples)

\* C3 witness of the violation: an add while ntokens(V) < N was adopted
\* although the total did not go down.
C3_AddWithoutGain ==
    /\ Adopted
    /\ how \in {"byte", "bpe"}
    /\ ntokens(prev_ts) < budget
    /\ TotalOn(ts, samples) >= TotalOn(prev_ts, samples)

\* C4: from every start vocabulary with ntokens <= N the loop of
\* optimize_tokenset_impl, after adopting finitely many vocabularies, gets no
\* new vocabulary from optimization_step and returns: a round of the loop
\* either adopts a vocabulary or returns the final stats, and never fails.
C4_LoopRoundAdoptsOrReturns ==
    [][(pc = "loop" /\ ntokens(ts) <= budget) => pc' \in {"loop", "returned"}]_vars

\* The part of C4 that holds: an adopting round never lowers ntokens, and it
\* raises ntokens or lowers the total, so that no run adopts for ever.
C4_AdoptingRoundsProgress ==
    [][(pc = "loop" /\ pc' = "loop") =>
          /\ ntokens(ts') >= ntokens(ts)
          /\ \/ ntokens(ts') > ntokens(ts)
             \/ TotalOn(ts', samples) < TotalOn(ts, samples)]_vars

\* C4 witness: the loop has adopted vocabularies and returned.
C4_Returned ==
    /\ pc = "returned"
    /\ ~IsNone(prev_ts)
    /\ ret.token_set = ts

\* C4 witness of the violation: the loop was entered with ntokens <= N and
\* a round of it has failed.
C4_LoopFailed ==
    /\ pc = "panic"
    /\ removal_count = <<>>
    /\ kind_arg = "Bits1"
    /\ IsNone(loaded)
    /\ ts = FreshBits1
    /\ budget = MaxBudget
    /\ ntokens(ts) <= budget
    /\ DOMAIN cache # {}

\* C9: every vocabulary the loop adopts, started from a vocabulary with
\* ntokens() <= N, has ntokens() <= N, whichever mutation (reshuffle,
\* add-by-BPE, add-by-byte, shrink-and-add, swap) produced it.
C9_AdoptedWithinBudget ==
    Adopted => ntokens(ts) <= budget

\* the start vocabulary the loop is entered with is within the budget
C9_StartWithinBudget ==
    pc \in {"impl", "loop"} => ntokens(ts) <= budget

\* C9 witness: a swap at ntokens(V) = N was adopted and the vocabulary is
\* still exactly at the budget.
C9_Witness ==
    /\ Adopted
    /\ how = "swap"
    /\ ntokens(prev_ts) = budget
    /\ ntokens(ts) = budget


-----------------------------------------------------------------------------
(* SpecCache: one TokenizerCache over a fixed corpus.  Vocabularies are     *)
(* built by a constructor and add_token calls, or by the Huffman byte       *)
(* optimizer, and given to get_stats and get_stats_with_pairs.              *)

CacheCorpora == { << <<97, 98>> >>, << <<195, 169, 97>>, <<98>> >> }

CacheTokens == {<<97>>, <<98>>, <<195, 97>>, <<169, 97>>}

InitCache ==
    /\ ts \in {FreshBits1, FreshBytes}
    /\ samples \in CacheCorpora
    /\ cache = <<>>
    /\ ret = None
    /\ how = "none"
    /\ pc = "build"
    /\ nadds = 0
    /\ loaded = None
    /\ stats = NoStats
    /\ slices = <<>>
    /\ budget = 0
    /\ removal_count = <<>>
    /\ prev_ts = None
    /\ kind_arg = "Bytes"
    /\ json = None
    /\ ParIdle

cacheFixed == <<loaded, stats, slices, samples, budget, removal_count, prev_ts,
                kind_arg, json, parVars>>

\* a caller starts another vocabulary with a constructor
CacheNewVocabulary(token_set) ==
    /\ pc = "build"
    /\ ts' = token_set
    /\ nadds' = 0
    /\ how' = "none"
    /\ ret' = None
    /\ UNCHANGED <<cache, pc, cacheFixed>>

\* token_set.add_token(token)
CacheAddToken(token) ==
    /\ pc = "build"
    /\ nadds < MaxCacheAdd
    /\ ts' = add_token(ts, token)
    /\ nadds' = nadds + 1
    /\ how' = "none"
    /\ ret' = None
    /\ UNCHANGED <<cache, pc, cacheFixed>>

\* HuffOptimizer::optimize_bytes(&stats, n) on the stats of a scan with
\* new_bytes, as optimize_tokenset seeds a BytesHuff vocabulary
CacheHuff(n) ==
    /\ pc = "build"
    /\ ts = FreshBytes
    /\ ts' = HuffOptimizeBytes(tokenize_file(ts, samples), n)
    /\ how' = "none"
    /\ ret' = None
    /\ UNCHANGED <<cache, pc, nadds, cacheFixed>>

CacheHasRoom(token_set) ==
    \/ get_key(sort(token_set)) \in DOMAIN cache
    \/ Cardinality(DOMAIN cache) < MaxCacheKeys

\* tokenizer_cache.get_stats(&ts)
CacheGetStats ==
    /\ pc = "build"
    /\ CacheHasRoom(ts)
    /\ LET got == get_stats(cache, ts, samples)
       IN  IF IsPanic(got)
           THEN pc' = "panic" /\ UNCHANGED <<cache, ret, how>>
           ELSE cache' = got.cache /\ ret' = got.stats /\ how' = "get_stats" /\ pc' = pc
    /\ UNCHANGED <<ts, nadds, cacheFixed>>

\* tokenizer_cache.get_stats_with_pairs(&ts)
CacheGetStatsWithPairs ==
    /\ pc = "build"
    /\ CacheHasRoom(ts)
    /\ LET got == get_stats_with_pairs(cache, ts, samples)
       IN  IF IsPanic(got)
           THEN pc' = "panic" /\ UNCHANGED <<cache, ret, how>>
           ELSE /\ cache' = got.cache
                /\ ret' = got.stats
                /\ how' = "get_stats_with_pairs"
                /\ pc' = pc
    /\ UNCHANGED <<ts, nadds, cacheFixed>>

NextCache ==
    \/ \E token_set \in {FreshBits1, FreshBytes} : CacheNewVocabulary(token_set)
    \/ \E token \in CacheTokens : CacheAddToken(token)
    \/ \E n \in 3..4 : CacheHuff(n)
    \/ CacheGetStats
    \/ CacheGetStatsWithPairs

SpecCache == InitCache /\ [][NextCache]_vars

\* the index (from 1) of token in tokens, 0 when it is not there
IndexOf(tokens, token) ==
    LET hits == {i \in 1..Len(tokens) : tokens[i] = token}
    IN  IF hits = {} THEN 0 ELSE CHOOSE i \in hits : \A j \in hits : i <= j

\* the index (from 1) of the sequence of the bytes string, 0 when none is
IndexOfString(sequences, string) ==
    LET hits == {i \in 1..Len(sequences) : sequences[i].string = string}
    IN  IF hits = {} THEN 0 ELSE CHOOSE i \in hits : \A j \in hits : i <= j

\* two scans agree in everything but the pair counts
SameButPairs(a, b) ==
    /\ a.total_tokens = b.total_tokens
    /\ a.scanned_bytes = b.scanned_bytes
    /\ a.token_counts = b.token_counts
    /\ a.seq_counts = b.seq_counts

\* the counts of scan a of vocabulary v are, token by token and sequence by
\* sequence, those of scan b of the sorted v
SameCountsPerToken(v, a, b) ==
    /\ \A i \in 1..Len(v.tokens) :
          a.token_counts[i] = b.token_counts[IndexOf(b.token_set.tokens, v.tokens[i])]
    /\ \A i \in 1..Len(v.sequences) :
          a.seq_counts[i] = b.seq_counts[IndexOfString(b.token_set.sequences, v.sequences[i].string)]

Inputs == StringsOver(ByteValues, 0, MaxInputLen)

\* C6: a vocabulary whose key (the JSON text of the sorted vocabulary) is
\* the key of a cache entry gives, on every input, the total_tokens,
\* token_counts and seq_counts that the vocabulary of the entry gives.
C6_SameKeySameScan ==
    \A k \in DOMAIN cache :
        (pc = "build" /\ get_key(sort(ts)) = k) =>
            \A input \in Inputs :
                LET mine == tokenize_file(sort(ts), <<input>>)
                    theirs == tokenize_file(cache[k].token_set, <<input>>)
                IN  /\ ~IsPanic(mine)
                    /\ mine.total_tokens = theirs.total_tokens
                    /\ mine.token_counts = theirs.token_counts
                    /\ mine.seq_counts = theirs.seq_counts

\* C6 witness: the vocabulary at hand was built after the entry of its key
\* was made, in another order of add_token calls.
C6_Witness ==
    /\ pc = "build"
    /\ how = "none"
    /\ nadds = 2
    /\ ts # sort(ts)
    /\ get_key(sort(ts)) \in DOMAIN cache
    /\ cache[get_key(sort(ts))].token_set = sort(ts)
    /\ cache[get_key(sort(ts))].total_tokens > 0

-----------------------------------------------------------------------------
(* SpecVocab: a vocabulary is made by a constructor, grown by add_token,    *)
(* rebuilt by SimpleBytesOptimizer or HuffOptimizer from the stats of a     *)
(* scan, and written to JSON and read back.                                  *)

Processings == {"Raw", "CapsWords"}

\* what the four constructors return
VocabStarts ==
    {new_bits1(p, sp) : p \in Processings, sp \in BOOLEAN}
    \cup {new_bits2("Raw", sp) : sp \in BOOLEAN}
    \cup {new_bits4("Raw", sp) : sp \in BOOLEAN}
    \cup {new_bytes(p) : p \in Processings}

VocabCorpora == { << <<97, 98, 97>>, <<195, 169, 10>> >> }

VocabTokens == {<<97>>, <<195>>, <<97, 98>>, <<195, 169>>}

InitVocab ==
    /\ ts \in VocabStarts
    /\ samples \in VocabCorpora
    /\ how = "new"
    /\ pc = "build"
    /\ nadds = 0
    /\ loaded = None
    /\ stats = NoStats
    /\ slices = <<>>
    /\ cache = <<>>
    /\ ret = None
    /\ budget = 0
    /\ removal_count = <<>>
    /\ prev_ts = None
    /\ kind_arg = "Bytes"
    /\ json = None
    /\ ParIdle

vocabFixed == <<stats, slices, samples, cache, ret, budget, removal_count, prev_ts,
                kind_arg, json, parVars>>

\* token_set.add_token(token)
VocabAddToken(token) ==
    /\ pc = "build"
    /\ nadds < MaxVocabAdd
    /\ ts' = add_token(ts, token)
    /\ nadds' = nadds + 1
    /\ how' = "add_token"
    /\ UNCHANGED <<pc, loaded, vocabFixed>>

\* SimpleBytesOptimizer::optimize_bytes(&stats, n_byte_ext_tokens) on the
\* stats of a scan with the vocabulary
VocabSimple(n_byte_ext_tokens) ==
    /\ pc = "build"
    /\ LET st == tokenize_file(ts, samples)
           new_token_set == SimpleOptimizeBytes(st, n_byte_ext_tokens)
       IN  IF IsPanic(st) THEN pc' = "panic" /\ UNCHANGED <<ts, how>>
           ELSE IF IsPanic(new_token_set) THEN pc' = "panic" /\ UNCHANGED <<ts, how>>
           ELSE ts' = new_token_set /\ how' = "simple" /\ pc' = pc
    /\ UNCHANGED <<nadds, loaded, vocabFixed>>

\* HuffOptimizer::optimize_bytes(&stats, n_byte_ext_tokens) on the stats of
\* a scan with the vocabulary
VocabHuff(n_byte_ext_tokens) ==
    /\ pc = "build"
    /\ LET st == tokenize_file(ts, samples)
           new_token_set == HuffOptimizeBytes(st, n_byte_ext_tokens)
       IN  IF IsPanic(st) THEN pc' = "panic" /\ UNCHANGED <<ts, how>>
           ELSE IF IsPanic(new_token_set) THEN pc' = "panic" /\ UNCHANGED <<ts, how>>
           ELSE ts' = new_token_set /\ how' = "huff" /\ pc' = pc
    /\ UNCHANGED <<nadds, loaded, vocabFixed>>

\* TokenSet::from_json(token_set.to_json())
VocabRoundTrip ==
    /\ pc = "build"
    /\ IF from_json_panics(to_json(ts))
       THEN pc' = "panic" /\ UNCHANGED loaded
       ELSE pc' = "loaded" /\ loaded' = from_json(to_json(ts))
    /\ UNCHANGED <<ts, nadds, how, vocabFixed>>

NextVocab ==
    \/ \E token \in VocabTokens : VocabAddToken(token)
    \/ \E n_byte_tokens \in (-1)..MaxByteTokens :
          VocabSimple(ts.n_ext_tokens + n_byte_tokens)
    \/ \E n \in 2..MaxByteExt : VocabHuff(n)
    \/ VocabRoundTrip

SpecVocab == InitVocab /\ [][NextVocab]_vars

\* token_set has a single-byte Str token of byte b
HasByteToken(token_set, b) ==
    \E i \in 1..Len(token_set.tokens) :
        ~token_set.tokens[i].ext /\ token_set.tokens[i].s = <<b>>

\* the number of sequences of token_set whose string is the byte b
NByteSequences(token_set, b) ==
    Cardinality({i \in 1..Len(token_set.sequences) : token_set.sequences[i].string = <<b>>})

\* C7: in a vocabulary made by a constructor and add_token calls, or returned
\* by SimpleBytesOptimizer or HuffOptimizer, every byte has a single-byte Str
\* token and no sequence, or no such token and exactly one sequence.
C7_ByteCoverage ==
    pc = "build" =>
        \A b \in ByteValues :
            \/ HasByteToken(ts, b) /\ NByteSequences(ts, b) = 0
            \/ ~HasByteToken(ts, b) /\ NByteSequences(ts, b) = 1

\* C7 witness: add_token of a byte's string took the byte's sequence out of
\* a vocabulary HuffOptimizer returned.
C7_Witness ==
    /\ pc = "build"
    /\ ts.token_type = "BytesHuff"
    /\ how = "add_token"
    /\ ts.sequences # <<>>
    /\ HasByteToken(ts, 195)
    /\ Last(ts.tokens).s = <<195>>
    /\ ~HasByteToken(ts, 10)

\* the five fields a vocabulary is made of
SameVocabulary(a, b) ==
    /\ a.token_type = b.token_type
    /\ a.processing = b.processing
    /\ a.split_paragraphs = b.split_paragraphs
    /\ a.tokens = b.tokens
    /\ a.sequences = b.sequences

\* C8: the vocabulary read back from the JSON of V equals V, both sorted, in
\* kind, processing, split_paragraphs, tokens and sequences.
C8_JsonRoundTrip ==
    pc = "loaded" => SameVocabulary(sort(loaded), sort(ts))

\* C8 witness: new_bits1(Raw, true), untouched, comes back with
\* split_paragraphs false.
C8_Witness ==
    /\ pc = "loaded"
    /\ ts = FreshBits1
    /\ ts.split_paragraphs
    /\ ~loaded.split_paragraphs
    /\ loaded.tokens = ts.tokens
    /\ loaded.sequences = ts.sequences

\* the round trip keeps everything but split_paragraphs for the Bits kinds
C8_BitsKeepAllButSplit ==
    (pc = "loaded" /\ ts.token_type \in {"Bits1", "Bits2", "Bits4"}) =>
        SameVocabulary(sort([loaded EXCEPT !.split_paragraphs = ts.split_paragraphs]),
                       sort(ts))

\* a BytesHuff vocabulary comes back without its sequences
C8_HuffLosesSequences ==
    /\ pc = "loaded"
    /\ ts.token_type = "BytesHuff"
    /\ ts.sequences # <<>>
    /\ loaded.sequences = <<>>

-----------------------------------------------------------------------------
(* SpecBpe: a vocabulary is built, a corpus of one sample is scanned with   *)
(* it, and add_token_bpe is called on the stats of the scan.                *)

BpeTokens == {<<10>>, <<97>>, <<10, 10>>, <<97, 98>>}

InitBpe ==
    /\ ts \in {FreshBits1, FreshBytes}
    /\ samples \in {<<s>> : s \in StringsOver(TextBytes, 0, MaxBpeLen)}
    /\ pc = "build"
    /\ nadds = 0
    /\ stats = NoStats
    /\ ret = None
    /\ how = "none"
    /\ loaded = None
    /\ slices = <<>>
    /\ cache = <<>>
    /\ budget = 0
    /\ removal_count = <<>>
    /\ prev_ts = None
    /\ kind_arg = "Bytes"
    /\ json = None
    /\ ParIdle

bpeFixed == <<loaded, slices, samples, cache, budget, removal_count, prev_ts,
              kind_arg, json, how, parVars>>

\* token_set.add_token(token)
BpeAddToken(token) ==
    /\ pc = "build"
    /\ nadds < MaxBpeAdd
    /\ ts' = add_token(ts, token)
    /\ nadds' = nadds + 1
    /\ UNCHANGED <<pc, stats, ret, bpeFixed>>

\* tokenize_file(&token_set, sampler), pair counts included
BpeScan ==
    /\ pc = "build"
    /\ LET st == tokenize_file(ts, samples)
       IN  IF IsPanic(st) THEN pc' = "panic" /\ UNCHANGED stats
           ELSE pc' = "scanned" /\ stats' = st
    /\ UNCHANGED <<ts, nadds, ret, bpeFixed>>

\* add_token_bpe(&stats)
BpeAdd ==
    /\ pc = "scanned"
    /\ ret' = add_token_bpe(stats)
    /\ pc' = IF IsNone(add_token_bpe(stats)) THEN "no_add" ELSE "added"
    /\ UNCHANGED <<ts, nadds, stats, bpeFixed>>

NextBpe ==
    \/ \E token \in BpeTokens : BpeAddToken(token)
    \/ BpeScan
    \/ BpeAdd

SpecBpe == InitBpe /\ [][NextBpe]_vars

\* the pairs of positive count of st whose concatenation is a valid token
ValidPairs(st) ==
    {p \in 0..(Len(st.pair_counts) - 1) :
        At(st.pair_counts, p) > 0 /\ is_valid_token(PairConcat(st, p))}

\* C10: the token add_token_bpe adds is not the concatenation of a pair that
\* holds two newlines followed by another byte: it is the concatenation of a
\* pair of the highest count among the pairs whose concatenation is valid.
C10_AddsBestValidPair ==
    pc = "added" =>
        /\ is_valid_token(Last(ret.token_set.tokens).s)
        /\ \E p \in ValidPairs(stats) :
              /\ Last(ret.token_set.tokens).s = PairConcat(stats, p)
              /\ \A q \in ValidPairs(stats) :
                    At(stats.pair_counts, q) <= At(stats.pair_counts, p)

\* C10 witness: the only pair of the scan is "\n\n" followed by "a", and
\* "\n\na" is the token added.
C10_InvalidAdded ==
    /\ pc = "added"
    /\ ValidPairs(stats) = {}
    /\ Last(ret.token_set.tokens).s = <<10, 10, 97>>
    /\ ret.count = 0

\* where some pair is valid, C10's statement holds
C10_HoldsWhereAPairIsValid ==
    (pc = "added" /\ ValidPairs(stats) # {}) =>
        /\ is_valid_token(Last(ret.token_set.tokens).s)
        /\ \E p \in ValidPairs(stats) :
              /\ Last(ret.token_set.tokens).s = PairConcat(stats, p)
              /\ ret.count = At(stats.pair_counts, p)
              /\ \A q \in ValidPairs(stats) :
                    At(stats.pair_counts, q) <= At(stats.pair_counts, p)

\* the pair ranked first was passed over because it is not valid
C10_SkippedInvalidPair ==
    /\ pc = "added"
    /\ ValidPairs(stats) # {}
    /\ ~is_valid_token(PairConcat(stats, Head(SortedPairs(stats))))
    /\ is_valid_token(Last(ret.token_set.tokens).s)

\* C11: when no pair of positive count has a valid concatenation (no pair of
\* positive count at all included), add_token_bpe returns None and adds no
\* token.
C11_NoValidPairNoAdd ==
    (pc \in {"added", "no_add"} /\ ValidPairs(stats) = {}) =>
        pc = "no_add" /\ IsNone(ret)

\* C11 witness: pairs were counted, none of them is valid, and the
\* vocabulary returned has one token more than the one scanned.
C11_AddedWithoutValidPair ==
    /\ pc = "added"
    /\ SortedPairs(stats) # <<>>
    /\ ValidPairs(stats) = {}
    /\ ntokens(ret.token_set) = ntokens(stats.token_set) + 1
    /\ ~is_valid_token(Last(ret.token_set.tokens).s)

\* where no pair has a positive count, add_token_bpe returns None
C11_NoPairNoAdd ==
    (pc \in {"added", "no_add"} /\ SortedPairs(stats) = <<>>) =>
        pc = "no_add" /\ IsNone(ret)

\* add_token_bpe returned None on a scan that counted no pair
C11_NoPairReached ==
    /\ pc = "no_add"
    /\ stats.scanned_bytes > 0
    /\ SortedPairs(stats) = <<>>

-----------------------------------------------------------------------------
(* Claims about the multi-worker path (SpecPar).                            *)

\* the scan can take no further step: every worker has ended and the driver
\* waits on a channel that nothing will ever feed or drain
ScanStuck == ~ENABLED NextPar

\* C12: when a worker has panicked the scan does not block and returns no
\* stats: whenever the scan has stopped with a panicked worker, the driver
\* has ended it with a failure.
C12_WorkerPanicFailsScan ==
    ((\E w \in Workers : wpc[w] = "panicked") /\ ScanStuck) => pc = "panic"

\* C12 witness: a worker has panicked on an empty sample, every worker has
\* ended, and the driver is blocked in results_rx.recv() with fewer than
\* nthreads results merged and none to come
C12_DriverBlocked ==
    /\ \E w \in Workers : wpc[w] = "panicked"
    /\ \A w \in Workers : wpc[w] \in {"done", "panicked"}
    /\ pc = "recv"
    /\ results = <<>>
    /\ nmerged < nthreads
    /\ ScanStuck

\* after a worker's panic tokenize_file returns no stats
C12_NoStatsAfterPanic ==
    (\E w \in Workers : wpc[w] = "panicked") => pc # "returned"

\* the number of positions of the sequence s that hold x
Occurrences(s, x) == Cardinality({k \in 1..Len(s) : s[k] = x})

\* worker w has received sample i and has not finished process_slice on it
\* (it is about to process it, or has panicked on it)
Holding(w, i) == wpc[w] \in {"process", "panicked"} /\ wjob[w] = i

\* the number of times sample i was processed, over all workers
TimesProcessed(i) ==
    Cardinality({p \in Workers \X (1..Len(samples)) :
                    p[2] <= Len(wlog[p[1]]) /\ wlog[p[1]][p[2]] = i})

\* the number of places sample i is at: in the channel, in a worker's hands,
\* or processed
Copies(i) ==
    Occurrences(jobs, i) + Cardinality({w \in Workers : Holding(w, i)})
        + TimesProcessed(i)

\* C13: every sample the producer has sent is at exactly one place (in the
\* channel, with one worker, or processed once by one worker) and no sample
\* is processed twice; when a worker has seen the closed channel every sample
\* has been received, and when the driver returns every sample has been
\* processed exactly once.
C13_EachSampleOnce ==
    /\ \A i \in 1..Len(samples) : Copies(i) = IF i <= nsent THEN 1 ELSE 0
    /\ \A i \in 1..Len(samples) : TimesProcessed(i) <= 1
    /\ (\E w \in Workers : wpc[w] \in {"send", "done"}) =>
           \A i \in 1..Len(samples) : Occurrences(jobs, i) = 0 /\ Copies(i) = 1
    /\ pc = "returned" => \A i \in 1..Len(samples) : TimesProcessed(i) = 1

\* C13 witness: the driver has returned from a scan in which two workers
\* took the samples from the shared receiver, each of them processing one,
\* and every sample was processed once
C13_Witness ==
    /\ pc = "returned"
    /\ nthreads = 2
    /\ Len(samples) = 2
    /\ \A w \in Workers : Len(wlog[w]) = 1
    /\ wlog[1] # wlog[2]
    /\ \A i \in 1..Len(samples) : TimesProcessed(i) = 1

\* the steps of the driver thread, and of the thread of worker w
DriverStep == DriverSend \/ DriverClose \/ DriverRecv \/ DriverJoin

WorkerStep(w) ==
    /\ w \in Workers
    /\ WorkerLock(w) \/ WorkerRecv(w) \/ WorkerProcess(w) \/ WorkerSend(w)

\* SpecPar with the scheduling of OS threads: the driver and every worker
\* are threads of their own (std::thread::scope, s.spawn), and a thread that
\* can take a step and stays able to is eventually run.  Every step of the
\* driver changes pc, nsent or nmerged, and every step of worker w changes
\* wpc[w]: these are the steps the fairness conditions speak of.
FairSpecPar ==
    /\ SpecPar
    /\ WF_<<pc, nsent, nmerged>>(DriverStep)
    /\ \A w \in 1..MaxThreads : WF_wpc(WorkerStep(w))

\* the number of results the workers have sent so far
ResultsSent == Len(results) + nmerged

\* the scan has ended: every worker has sent and exited, the driver has
\* merged nthreads results, joined the workers and returned
ScanReturned ==
    /\ pc = "returned"
    /\ \A w \in Workers : wpc[w] = "done"
    /\ nmerged = nthreads
    /\ results = <<>>

\* C14: in a scan in which no worker fails, each worker sends its stats at
\* most once, and only when exiting; and once the driver has sent the last
\* sample and dropped the sender, the scan eventually ends with every worker
\* exited after one send, nthreads results merged and the driver returned.
C14_ClosedScanReturns ==
    /\ [](NonEmptySamples =>
            /\ ResultsSent = Cardinality({w \in Workers : wpc[w] = "done"})
            /\ nmerged <= nthreads)
    /\ (closed /\ NonEmptySamples) ~> ScanReturned

\* C14 witness: the driver has returned from a scan of MaxSamples non-empty
\* samples by MaxThreads workers, all of which have sent and exited
C14_Witness ==
    /\ ScanReturned
    /\ closed
    /\ NonEmptySamples
    /\ nthreads = MaxThreads
    /\ Len(samples) = MaxSamples
    /\ ResultsSent = nthreads

-----------------------------------------------------------------------------
(* SpecEdit: a vocabulary with sequences is edited in place: tokens are      *)
(* added, sequences are added the way optimize_bytes_tokenset and the tests  *)
(* of tokenset.rs add them (a Str token followed by an Ext token), a token   *)
(* is removed, the vocabulary is sorted.  prev_ts is the vocabulary before   *)
(* the last operation and how names that operation.                          *)

\* TokenSet::new(2, Processing::Raw, TokenType::BytesHuff, true), the start of
\* the tests sort and remove_token, and new_bits1(Raw, false)
EditStarts == {TokenSetNew(2, "Raw", "BytesHuff", TRUE), FreshBits1}

EditTokens == {<<97>>, <<98>>, <<98, 99>>}

EditStrings == {<<100>>, <<101>>}

\* the token lists of the sequences added: a Str token, then an Ext token
EditSeqTokens(t) ==
    {<<i, e>> : i \in (t.n_ext_tokens)..(ntokens(t) - 1), e \in 0..(t.n_ext_tokens - 1)}

\* the number of sequences the constructor of the vocabulary made
EditStartSequences(t) == IF t.token_type = "Bits1" THEN Len(FreshBits1.sequences) ELSE 0

InitEdit ==
    /\ ts \in EditStarts
    /\ prev_ts = None
    /\ how = "new"
    /\ pc = "edit"
    /\ nadds = 0
    /\ loaded = None
    /\ stats = NoStats
    /\ slices = <<>>
    /\ samples = <<>>
    /\ cache = <<>>
    /\ ret = None
    /\ budget = 0
    /\ removal_count = <<>>
    /\ kind_arg = "Bytes"
    /\ json = None
    /\ ParIdle

editFixed == <<loaded, stats, slices, samples, cache, ret, budget, removal_count,
               kind_arg, json, parVars>>

\* token_set.add_token(token)
EditAddToken(token) ==
    /\ pc = "edit"
    /\ nadds < MaxEditAdd
    /\ ts' = add_token(ts, token)
    /\ prev_ts' = ts
    /\ how' = "add_token"
    /\ nadds' = nadds + 1
    /\ UNCHANGED <<pc, editFixed>>

\* token_set.add_sequence(string, tokens)
EditAddSequence(string, tokens) ==
    /\ pc = "edit"
    /\ Len(ts.sequences) < EditStartSequences(ts) + MaxEditSeq
    /\ \A i \in 1..Len(ts.sequences) : ts.sequences[i].string # string
    /\ ts' = add_sequence(ts, string, tokens)
    /\ prev_ts' = ts
    /\ how' = "add_sequence"
    /\ UNCHANGED <<pc, nadds, editFixed>>

\* token_set.remove_token(token_idx): panics when a sequence refers to
\* token_idx
EditRemoveToken(token_idx) ==
    /\ pc = "edit"
    /\ IF remove_token_ok(ts, token_idx)
       THEN /\ ts' = remove_token(ts, token_idx)
            /\ prev_ts' = ts
            /\ how' = "remove_token"
            /\ pc' = pc
       ELSE /\ pc' = "panic"
            /\ UNCHANGED <<ts, prev_ts, how>>
    /\ UNCHANGED <<nadds, editFixed>>

\* token_set.sort()
EditSort ==
    /\ pc = "edit"
    /\ ts' = sort(ts)
    /\ prev_ts' = ts
    /\ how' = "sort"
    /\ UNCHANGED <<pc, nadds, editFixed>>

NextEdit ==
    \/ \E token \in EditTokens : EditAddToken(token)
    \/ \E string \in EditStrings : \E tokens \in EditSeqTokens(ts) :
          EditAddSequence(string, tokens)
    \/ \E token_idx \in 0..(ntokens(ts) - 1) : EditRemoveToken(token_idx)
    \/ EditSort

SpecEdit == InitEdit /\ [][NextEdit]_vars

\* the sequences of t with the Token values their indices refer to
SequenceValues(t) ==
    [i \in 1..Len(t.sequences) |->
        [string |-> t.sequences[i].string,
         tokens |-> [j \in 1..Len(t.sequences[i].tokens) |->
                        At(t.tokens, t.sequences[i].tokens[j])]]]

\* every index of every sequence of t is the index of a token of t
IndicesInRange(t) ==
    \A i \in 1..Len(t.sequences) : \A j \in 1..Len(t.sequences[i].tokens) :
        t.sequences[i].tokens[j] \in 0..(Len(t.tokens) - 1)

\* old without old[token_idx], the last element of old stored at token_idx
WithoutSwapped(old, token_idx) ==
    [j \in 1..(Len(old) - 1) |-> IF j = token_idx + 1 THEN Last(old) ELSE old[j]]

\* C15: a remove_token(token_idx) on a token that no sequence refers to
\* leaves the old token list without tokens[token_idx], the former last
\* token stored at token_idx, and every sequence refers to the same Token
\* values in the same order as before; nothing else of the vocabulary
\* changes.
C15_RemoveTokenKeepsSequences ==
    [][\A token_idx \in 0..(ntokens(ts) - 1) :
          (EditRemoveToken(token_idx) /\ remove_token_ok(ts, token_idx)) =>
              /\ ts'.tokens = WithoutSwapped(ts.tokens, token_idx)
              /\ IndicesInRange(ts')
              /\ SequenceValues(ts') = SequenceValues(ts)
              /\ [ts' EXCEPT !.tokens = <<>>, !.sequences = <<>>]
                    = [ts EXCEPT !.tokens = <<>>, !.sequences = <<>>]]_vars

\* C15 witness: a token that is not the last was removed while a sequence
\* referred to the last token, which has moved to the removed token's index
C15_Witness ==
    /\ how = "remove_token"
    /\ pc = "edit"
    /\ Len(ts.tokens) = Len(prev_ts.tokens) - 1
    /\ \E i \in 1..Len(prev_ts.sequences) :
          /\ prev_ts.sequences[i].tokens[1] = Len(prev_ts.tokens) - 1
          /\ ts.sequences[i].tokens[1] < Len(ts.tokens) - 1
          /\ At(ts.tokens, ts.sequences[i].tokens[1]) = Last(prev_ts.tokens)

\* v and w hold the same elements the same number of times
SameElements(v, w) ==
    \A x \in Range(v) \cup Range(w) : Occurrences(v, x) = Occurrences(w, x)

\* byte string x is at or before y in lexicographic order
LexLeq(x, y) == x = y \/ LexLess(x, y)

\* C16: after sort the Ext tokens come first in increasing k, then the Str
\* tokens in lexicographic byte order; the sequences are ordered by their
\* string; the tokens are those of before; and every sequence refers to the
\* same Token values in the same order as before.
C16_SortOrdersAndKeepsSequences ==
    how = "sort" =>
        /\ \A i, j \in 1..Len(ts.tokens) : i < j =>
              /\ ts.tokens[j].ext => ts.tokens[i].ext
              /\ (ts.tokens[i].ext /\ ts.tokens[j].ext) => ts.tokens[i].k < ts.tokens[j].k
              /\ (~ts.tokens[i].ext /\ ~ts.tokens[j].ext) =>
                    LexLeq(ts.tokens[i].s, ts.tokens[j].s)
        /\ \A i, j \in 1..Len(ts.sequences) : i < j =>
              LexLeq(ts.sequences[i].string, ts.sequences[j].string)
        /\ SameElements(ts.tokens, prev_ts.tokens)
        /\ IndicesInRange(ts)
        /\ SameElements(SequenceValues(ts), SequenceValues(prev_ts))
        /\ [ts EXCEPT !.tokens = <<>>, !.sequences = <<>>]
              = [prev_ts EXCEPT !.tokens = <<>>, !.sequences = <<>>]

\* C16 witness: sort has moved Str tokens that sequences refer to, and has
\* reordered the sequences
C16_Witness ==
    /\ how = "sort"
    /\ ts.tokens # prev_ts.tokens
    /\ Len(ts.sequences) = MaxEditSeq
    /\ ts.sequences[1].string = prev_ts.sequences[2].string
    /\ ts.sequences[1].tokens # prev_ts.sequences[2].tokens
    /\ ts.sequences[2].tokens # prev_ts.sequences[1].tokens

\* C17: for every vocabulary, sorting the sorted vocabulary changes nothing:
\* sort applied twice gives the tokens, the sequences and the sequences'
\* token indices of sort applied once.
C17_SortIdempotent ==
    pc = "edit" => sort(sort(ts)) = sort(ts)

\* C17 witness: a sort has moved tokens and renumbered a sequence, and a
\* second sort of its result changes nothing
C17_Witness ==
    /\ how = "sort"
    /\ ts.tokens # prev_ts.tokens
    /\ \E i \in 1..Len(ts.sequences) : \E j \in 1..Len(prev_ts.sequences) :
          /\ ts.sequences[i].string = prev_ts.sequences[j].string
          /\ ts.sequences[i].tokens # prev_ts.sequences[j].tokens
    /\ sort(ts) = ts

-----------------------------------------------------------------------------
(* SpecSplit: a vocabulary is built, the engine is made, and at most two    *)
(* slices are processed into the one TokenStats; slices holds them in       *)
(* order.  The scan of the two slices is compared with the scan of their    *)
(* concatenation into a fresh TokenStats.                                   *)

SplitTokens == {<<97>>, <<97, 98>>, <<98, 97>>, <<97, 97>>, <<97, 98, 97>>}

SplitBytes == {97, 98}

InitSplit ==
    /\ ts \in {FreshBits1, FreshBytes}
    /\ loaded = None
    /\ stats = NoStats
    /\ slices = <<>>
    /\ pc = "build"
    /\ samples = <<>>
    /\ nadds = 0
    /\ ParIdle
    /\ OptIdle

\* token_set.add_token(token)
SplitAddToken(token) ==
    /\ pc = "build"
    /\ nadds < MaxSplitAdd
    /\ ts' = add_token(ts, token)
    /\ nadds' = nadds + 1
    /\ UNCHANGED <<loaded, stats, slices, pc, samples, parVars, optVars>>

\* tokenizer.process_slice(bytes, &mut stats, &mut buffer), at most twice
SplitProcess(bytes) ==
    /\ pc = "ready"
    /\ Len(slices) < 2
    /\ stats' = process_slice(FragmentTokenizerNew(ts), bytes, stats)
    /\ slices' = Append(slices, bytes)
    /\ UNCHANGED <<ts, loaded, pc, samples, nadds, parVars, optVars>>

NextSplit ==
    \/ \E token \in SplitTokens : SplitAddToken(token)
    \/ NewTokenizer
    \/ \E bytes \in StringsOver(SplitBytes, 0, MaxSplitLen) : SplitProcess(bytes)

SpecSplit == InitSplit /\ [][NextSplit]_vars

\* the cost_state of process_slice(bytes)
CostStateOf(tokenizer, bytes) ==
    CostStates(tokenizer, bytes, 1, 0, <<[cost |-> 0, span |-> 0]>>)

\* the positions the traceback of update_stats visits from pos down to 0: the
\* boundaries of the segmentation the engine chooses
RECURSIVE TracePositions(_, _, _)
TracePositions(tokenizer, cost_state, pos) ==
    IF pos = 0 THEN {0}
    ELSE {pos} \cup TracePositions(tokenizer, cost_state,
            pos - Len(At(tokenizer.spans, At(cost_state, pos).span).string))

\* the pair_counts after the pair of the two spans that meet at the boundary
\* cut is counted, when both are Token spans; pair_counts itself otherwise
WithPairAtCut(tokenizer, cost_state, len, cut, n, pair_counts) ==
    IF cut = 0 \/ cut = len THEN pair_counts
    ELSE LET bounds == TracePositions(tokenizer, cost_state, len)
             after == CHOOSE q \in bounds : q > cut /\ \A o \in bounds : o > cut => q <= o
             left == At(tokenizer.spans, At(cost_state, cut).span)
             right == At(tokenizer.spans, At(cost_state, after).span)
         IN  IF left.content = "Token" /\ right.content = "Token"
             THEN Incr(pair_counts, left.idx * n + right.idx)
             ELSE pair_counts

\* the two slices processed are the parts of their concatenation cut at a
\* boundary of the segmentation the engine chooses for it
CutAtBoundary ==
    /\ pc = "ready"
    /\ Len(slices) = 2
    /\ Len(slices[1]) \in
          TracePositions(FragmentTokenizerNew(ts),
                         CostStateOf(FragmentTokenizerNew(ts), slices[1] \o slices[2]),
                         Len(slices[1]) + Len(slices[2]))

\* C18: processing s1 and then s2, the parts of s cut at a boundary of the
\* segmentation the engine chooses for s, gives the total_tokens,
\* scanned_bytes, token_counts and seq_counts of processing s, and the
\* pair_counts of processing s but for the pair of the two tokens that meet
\* at the cut.
C18_SplitAtBoundaryAdds ==
    CutAtBoundary =>
        \E tokenizer \in {FragmentTokenizerNew(ts)} :
        \E whole \in {process_slice(tokenizer, slices[1] \o slices[2], TokenStatsNew(ts))} :
            /\ stats.total_tokens = whole.total_tokens
            /\ stats.scanned_bytes = whole.scanned_bytes
            /\ stats.token_counts = whole.token_counts
            /\ stats.seq_counts = whole.seq_counts
            /\ whole.pair_counts =
                  WithPairAtCut(tokenizer, CostStateOf(tokenizer, slices[1] \o slices[2]),
                                Len(slices[1]) + Len(slices[2]), Len(slices[1]),
                                ntokens(ts), stats.pair_counts)

\* C18 witness: the input was cut between two tokens inside it, the whole
\* scan counts their pair and the split scan does not, and a span of the
\* vocabulary crosses the cut
C18_Witness ==
    /\ CutAtBoundary
    /\ slices[1] # <<>>
    /\ slices[2] # <<>>
    /\ stats.total_tokens > 0
    /\ stats.pair_counts #
          process_slice(FragmentTokenizerNew(ts), slices[1] \o slices[2],
                        TokenStatsNew(ts)).pair_counts
    /\ \E i \in 1..Len(ts.tokens) :
          /\ ~ts.tokens[i].ext
          /\ ts.tokens[i].s = <<Last(slices[1]), Head(slices[2])>>

-----------------------------------------------------------------------------
(* SpecLoad: TokenSet::from_json on a JSON document read from a file.  The   *)
(* documents are those with a type, a processing, an optional fallback_bits  *)
(* and a tokens array; json is the document and loaded the vocabulary        *)
(* from_json returns.                                                        *)

JsonTypes == {"bits1", "bytes", "byteshuff", "all_tokens", "fallback_bits", "words"}

JsonProcessings == {"raw", "capswords"}

\* the values of fallback_bits in a document; 0 stands for a document
\* without the key
JsonFallbackBits == {0, 1, 3}

\* the tokens arrays of the documents are the sublists of this array
JsonTokenList ==
    <<JNum(0), JNum(1), JStr(<<10>>), JStr(<<97>>), JStr(<<98>>), JArr(<<169>>),
      JArr(<<195>>), JStr(<<97, 98>>)>>

\* the elements of v at the positions in keep, in order
RECURSIVE SubList(_, _, _)
SubList(v, keep, i) ==
    IF i > Len(v) THEN <<>>
    ELSE (IF i \in keep THEN <<v[i]>> ELSE <<>>) \o SubList(v, keep, i + 1)

JsonDoc(type, processing, fallback_bits, keep) ==
    IF fallback_bits = 0
    THEN [type |-> type, processing |-> processing,
          tokens |-> SubList(JsonTokenList, keep, 1)]
    ELSE [type |-> type, processing |-> processing, fallback_bits |-> fallback_bits,
          tokens |-> SubList(JsonTokenList, keep, 1)]

InitLoad ==
    /\ \E type \in JsonTypes, processing \in JsonProcessings,
          fallback_bits \in JsonFallbackBits, keep \in SUBSET (1..Len(JsonTokenList)) :
          json = JsonDoc(type, processing, fallback_bits, keep)
    /\ ts = TokenSetNew(0, "Raw", "Bytes", FALSE)
    /\ loaded = None
    /\ stats = NoStats
    /\ slices = <<>>
    /\ pc = "load"
    /\ samples = <<>>
    /\ nadds = 0
    /\ cache = <<>>
    /\ ret = None
    /\ budget = 0
    /\ removal_count = <<>>
    /\ prev_ts = None
    /\ how = "none"
    /\ kind_arg = "Bytes"
    /\ ParIdle

\* TokenSet::from_json(value)
Load ==
    /\ pc = "load"
    /\ IF from_json_panics(json)
       THEN pc' = "panic" /\ UNCHANGED loaded
       ELSE pc' = "loaded" /\ loaded' = from_json(json)
    /\ UNCHANGED <<ts, stats, slices, samples, nadds, parVars, optVars>>

NextLoad == Load

SpecLoad == InitLoad /\ [][NextLoad]_vars

\* the document's type is none that from_json knows
UnknownType(value) ==
    \/ value.type \notin {"fallback_bits", "all_tokens", "bits1", "bits2", "bits4",
                          "bytes", "byteshuff"}
    \/ value.type = "fallback_bits" /\
          ("fallback_bits" \notin DOMAIN value \/ value.fallback_bits \notin {1, 2, 4})

\* the document leaves byte b uncovered: its type defines no fallback
\* sequences, it lists none for b, and its tokens hold no single-byte string b
LeavesUncovered(value, b) ==
    /\ value.type \in {"bytes", "all_tokens", "byteshuff"}
    /\ "sequences" \notin DOMAIN value
    /\ \A i \in 1..Len(value.tokens) : value.tokens[i].b # <<b>>

\* C19: from_json fails on a document of an unknown type and on a document
\* whose tokens and sequences leave a byte value without a single-byte Str
\* token and without a fallback sequence.
C19_MalformedJsonFails ==
    (/\ pc # "load"
     /\ UnknownType(json) \/ \E b \in ByteValues : LeavesUncovered(json, b))
        => pc = "panic"

\* C19 witness: from_json has returned a vocabulary for a document of type
\* "bytes" that leaves a byte uncovered, and in the vocabulary that byte has
\* neither a single-byte Str token nor a sequence
C19_LoadedUncovered ==
    /\ pc = "loaded"
    /\ json.type = "bytes"
    /\ loaded.token_type = "Bytes"
    /\ loaded.tokens # <<>>
    /\ \E b \in ByteValues :
          /\ LeavesUncovered(json, b)
          /\ ~HasByteToken(loaded, b)
          /\ NByteSequences(loaded, b) = 0

\* from_json fails on every document of an unknown type
C19_UnknownTypeFails ==
    (pc # "load" /\ UnknownType(json)) => pc = "panic"

\* from_json has failed on a document of an unknown type, and on a document
\* of type fallback_bits without the fallback_bits key
C19_UnknownTypeFailed ==
    /\ pc = "panic"
    /\ json.type = "words" \/ (json.type = "fallback_bits" /\ "fallback_bits" \notin DOMAIN json)

-----------------------------------------------------------------------------
(* Claims about the distinctness of the Str tokens.                         *)

\* no two Str tokens of token_set have the same bytes
DistinctStr(token_set) ==
    \A i, j \in 1..Len(token_set.tokens) :
        (i < j /\ ~token_set.tokens[i].ext /\ ~token_set.tokens[j].ext) =>
            token_set.tokens[i].s # token_set.tokens[j].s

\* C20: the vocabularies the optimizer builds have pairwise distinct Str
\* byte strings: add_token_bpe, given the stats of the engine's scan with a
\* vocabulary of distinct Str strings, proposes a token whose bytes are not
\* those of a Str token of the vocabulary, so the vocabulary it returns has
\* distinct Str strings too.
C20_BpeProposesNewString ==
    (pc = "added" /\ DistinctStr(stats.token_set)) =>
        /\ \A i \in 1..Len(stats.token_set.tokens) :
              ~stats.token_set.tokens[i].ext =>
                  stats.token_set.tokens[i].s # Last(ret.token_set.tokens).s
        /\ DistinctStr(ret.token_set)

\* C20 witness: add_token_bpe has added a token to a vocabulary in which a
\* Str token is the concatenation of two Str tokens that follow each other
\* in the text scanned
C20_Witness ==
    /\ pc = "added"
    /\ DistinctStr(stats.token_set)
    /\ ntokens(ret.token_set) = ntokens(stats.token_set) + 1
    /\ \E i, j, k \in 1..Len(stats.token_set.tokens) :
          /\ ~stats.token_set.tokens[i].ext
          /\ ~stats.token_set.tokens[j].ext
          /\ ~stats.token_set.tokens[k].ext
          /\ stats.token_set.tokens[k].s =
                stats.token_set.tokens[i].s \o stats.token_set.tokens[j].s
          /\ stats.token_counts[k] > 0

\* every vocabulary the loop of optimize_tokenset_impl adopts, by reshuffle,
\* add-by-BPE, add-by-byte, shrink-and-add or swap, has pairwise distinct
\* Str byte strings
C20_AdoptedDistinctStr ==
    Adopted => DistinctStr(ts)

\* a vocabulary with a multi-byte Str token was adopted after an add-by-BPE
C20_AdoptedBpe ==
    /\ Adopted
    /\ how = "bpe"
    /\ n_long_tokens(ts) > 0

-----------------------------------------------------------------------------
(* Claims about the pair counts of process_slice (SpecSplit) *)

\* the spans of the segmentation the engine chooses for a slice, from the
\* first byte to the last: the span recorded at pos, after the spans chosen
\* for the bytes before it
RECURSIVE ChosenSpans(_, _, _)
ChosenSpans(tokenizer, cost_state, pos) ==
    IF pos = 0 THEN <<>>
    ELSE Bind(At(tokenizer.spans, At(cost_state, pos).span), LAMBDA span :
            Append(ChosenSpans(tokenizer, cost_state, pos - Len(span.string)), span))

\* the segmentation of every slice processed so far
ChosenOfSlices(tokenizer) ==
    [k \in 1..Len(slices) |->
        ChosenSpans(tokenizer, CostStateOf(tokenizer, slices[k]), Len(slices[k]))]

\* the number of places of a segmentation where token a is immediately
\* followed by token b
PairPlaces(chosen, a, b) ==
    Cardinality({i \in 1..(Len(chosen) - 1) :
                    /\ chosen[i].content = "Token" /\ chosen[i].idx = a
                    /\ chosen[i + 1].content = "Token" /\ chosen[i + 1].idx = b})

RECURSIVE SumPairPlaces(_, _, _, _)
SumPairPlaces(chosen, k, a, b) ==
    IF k > Len(chosen) THEN 0
    ELSE PairPlaces(chosen[k], a, b) + SumPairPlaces(chosen, k + 1, a, b)

\* C21: after the process_slice calls on one TokenStats, pair_counts[a *
\* ntokens + b] is the number of places, in the segmentations chosen for the
\* slices, where Str token a is immediately followed by Str token b inside
\* one slice; tokens with a fallback sequence between them and tokens of
\* different slices are not counted.
C21_PairCountsAreAdjacentStrPairs ==
    pc = "ready" =>
        \E chosen \in {ChosenOfSlices(FragmentTokenizerNew(ts))} :
            /\ Len(stats.pair_counts) = ntokens(ts) * ntokens(ts)
            /\ \A a, b \in 0..(ntokens(ts) - 1) :
                  At(stats.pair_counts, a * ntokens(ts) + b) = SumPairPlaces(chosen, 1, a, b)

\* C21 witness: two slices were processed; in the first a Str token, a
\* fallback sequence and a Str token follow one another and that pair of
\* tokens has count 0; the first slice ends and the second begins with a Str
\* token and that pair has count 0 too; another pair was counted.
C21_Witness ==
    /\ pc = "ready"
    /\ Len(slices) = 2
    /\ \E chosen \in {ChosenOfSlices(FragmentTokenizerNew(ts))} :
          /\ \E i \in 1..(Len(chosen[1]) - 2) :
                /\ chosen[1][i].content = "Token"
                /\ chosen[1][i + 1].content = "Sequence"
                /\ chosen[1][i + 2].content = "Token"
                /\ At(stats.pair_counts,
                      chosen[1][i].idx * ntokens(ts) + chosen[1][i + 2].idx) = 0
          /\ chosen[2] # <<>>
          /\ Last(chosen[1]).content = "Token"
          /\ Head(chosen[2]).content = "Token"
          /\ At(stats.pair_counts,
                Last(chosen[1]).idx * ntokens(ts) + Head(chosen[2]).idx) = 0
          /\ \E k \in 1..Len(stats.pair_counts) : stats.pair_counts[k] > 0

-----------------------------------------------------------------------------
(* Claims about the suffix automaton of the engine (SpecSplit) *)

\* the automaton state process_slice is in after the first p bytes
RECURSIVE StateAfter(_, _, _)
StateAfter(tokenizer, bytes, p) ==
    IF p = 0 THEN 0
    ELSE Bind(StateAfter(tokenizer, bytes, p - 1), LAMBDA state_id :
            At(tokenizer.suffix_states, state_id).next[bytes[p]])

\* the spans the while loop of process_slice visits from span_idx on
RECURSIVE SuffixChain(_, _)
SuffixChain(tokenizer, span_idx) ==
    IF span_idx = 0 THEN <<>>
    ELSE <<span_idx>> \o SuffixChain(tokenizer, At(tokenizer.spans, span_idx).suffix_span)

IsSuffixOf(s, text) ==
    Len(s) <= Len(text) /\ SuffixFrom(text, Len(text) - Len(s)) = s

\* the spans, but the empty one, whose bytes end the text
SpansEnding(tokenizer, text) ==
    {i \in 1..(Len(tokenizer.spans) - 1) : IsSuffixOf(At(tokenizer.spans, i).string, text)}

\* C22: at every position p of a processed slice, the spans reached from the
\* automaton state's span_idx along the suffix_span links are exactly the
\* Str tokens and fallback sequences whose bytes are a suffix of
\* bytes[0..p], each once, from the longest to the shortest.
C22_ChainIsSpansEndingHere ==
    pc = "ready" =>
        \E tokenizer \in {FragmentTokenizerNew(ts)} :
        \A k \in 1..Len(slices) : \A p \in 1..Len(slices[k]) :
        \E chain \in {SuffixChain(tokenizer,
                         At(tokenizer.suffix_states,
                            StateAfter(tokenizer, slices[k], p)).span_idx)} :
            /\ Range(chain) = SpansEnding(tokenizer, PrefixTo(slices[k], p))
            /\ \A i \in 1..(Len(chain) - 1) :
                  Len(At(tokenizer.spans, chain[i]).string) >
                      Len(At(tokenizer.spans, chain[i + 1]).string)

\* C22 witness: a slice was processed at whose end three spans end, two Str
\* tokens and a fallback sequence, and the chain visits the three
C22_Witness ==
    /\ pc = "ready"
    /\ slices # <<>>
    /\ Len(slices[1]) = 3
    /\ \E tokenizer \in {FragmentTokenizerNew(ts)} :
       \E chain \in {SuffixChain(tokenizer,
                        At(tokenizer.suffix_states,
                           StateAfter(tokenizer, slices[1], 3)).span_idx)} :
          /\ Len(chain) = 3
          /\ At(tokenizer.spans, chain[1]).content = "Token"
          /\ At(tokenizer.spans, chain[2]).content = "Token"
          /\ At(tokenizer.spans, chain[3]).content = "Sequence"

-----------------------------------------------------------------------------
(* Claims about ties between spans of equal cost (SpecSplit) *)

\* the vocabulary with its tokens in the order perm (new place |-> old
\* place), the token lists of the sequences renumbered accordingly
Reorder(t, perm) ==
    LET place(old) == CHOOSE i \in 1..Len(t.tokens) : perm[i] = old
    IN  [t EXCEPT
           !.tokens = [i \in 1..Len(t.tokens) |-> t.tokens[perm[i]]],
           !.sequences = [q \in 1..Len(t.sequences) |->
                             [t.sequences[q] EXCEPT
                                !.tokens = [j \in 1..Len(t.sequences[q].tokens) |->
                                               place(t.sequences[q].tokens[j] + 1) - 1]]]]

\* the same tokens and sequences in other orders: sorted, reversed, and
\* rotated by one place
OtherOrders(t) ==
    LET n == Len(t.tokens)
    IN  {sort(t),
         Reorder(t, [i \in 1..n |-> n + 1 - i]),
         Reorder(t, [i \in 1..n |-> (i % n) + 1])}

\* the pieces of the segmentation the engine chooses: the kind and the bytes
\* of each span, first to last
ChosenPieces(token_set, bytes) ==
    Bind(FragmentTokenizerNew(token_set), LAMBDA tokenizer :
    Bind(ChosenSpans(tokenizer, CostStateOf(tokenizer, bytes), Len(bytes)),
         LAMBDA chosen :
        [i \in 1..Len(chosen) |->
            <<chosen[i].content, chosen[i].string,
              IF chosen[i].content = "Token"
              THEN <<At(token_set.tokens, chosen[i].idx)>>
              ELSE [j \in 1..Len(At(token_set.sequences, chosen[i].idx).tokens) |->
                       At(token_set.tokens,
                          At(token_set.sequences, chosen[i].idx).tokens[j])]>>]))

\* the cost of ending a segmentation of the first p bytes with span span_idx
CostThrough(tokenizer, cost_state, p, span_idx) ==
    At(cost_state, p - Len(At(tokenizer.spans, span_idx).string)).cost
        + At(tokenizer.spans, span_idx).cost

\* the first span of the chain whose cost is the least of the chain
FirstCheapest(tokenizer, cost_state, p, chain) ==
    chain[CHOOSE i \in 1..Len(chain) :
             /\ \A j \in 1..Len(chain) :
                   CostThrough(tokenizer, cost_state, p, chain[i])
                       <= CostThrough(tokenizer, cost_state, p, chain[j])
             /\ \A j \in 1..(i - 1) :
                   CostThrough(tokenizer, cost_state, p, chain[j])
                       > CostThrough(tokenizer, cost_state, p, chain[i])]

\* at position p of the slice two spans of the chain have the least cost
TieAt(tokenizer, bytes, p) ==
    \E cost_state \in {CostStateOf(tokenizer, bytes)} :
    \E chain \in {SuffixChain(tokenizer,
                     At(tokenizer.suffix_states, StateAfter(tokenizer, bytes, p)).span_idx)} :
    \E i, j \in 1..Len(chain) :
        /\ i # j
        /\ CostThrough(tokenizer, cost_state, p, chain[i]) = At(cost_state, p).cost
        /\ CostThrough(tokenizer, cost_state, p, chain[j]) = At(cost_state, p).cost

\* C23: at every position process_slice records, among the spans of the
\* suffix chain with the least cost, the one met first; and the segmentation
\* chosen for a slice (the kind, bytes and tokens of its pieces) is the same
\* for the same tokens and sequences held in another order.
C23_FirstMetWinsWhateverTheOrder ==
    pc = "ready" =>
        \E tokenizer \in {FragmentTokenizerNew(ts)} :
        \A k \in 1..Len(slices) :
            /\ \E cost_state \in {CostStateOf(tokenizer, slices[k])} :
               \A p \in 1..Len(slices[k]) :
                  At(cost_state, p).span =
                      FirstCheapest(tokenizer, cost_state, p,
                          SuffixChain(tokenizer,
                              At(tokenizer.suffix_states,
                                 StateAfter(tokenizer, slices[k], p)).span_idx))
            /\ \E pieces \in {ChosenPieces(ts, slices[k])} :
               \A other \in OtherOrders(ts) :
                  ChosenPieces(other, slices[k]) = pieces

\* C23 witness: a slice was processed in which two spans ending at the same
\* position give the same least cost, with a vocabulary that is not in
\* sorted order
C23_Witness ==
    /\ pc = "ready"
    /\ slices # <<>>
    /\ sort(ts) # ts
    /\ \E p \in 1..Len(slices[1]) : TieAt(FragmentTokenizerNew(ts), slices[1], p)

-----------------------------------------------------------------------------
(* Claims about the swap mode of remove_add_token (SpecOpt) *)

\* the multi-byte Str tokens by increasing attempt count, tokens of equal
\* count in their order in the vocabulary
InsertionOrder(token_set, rc) ==
    StableSort(LongStrings(token_set),
               LAMBDA x, y : RemovalCount(rc, x) < RemovalCount(rc, y))

\* removal_count after the first k tokens of order were tried
RECURSIVE BumpFirst(_, _, _)
BumpFirst(rc, order, k) ==
    IF k = 0 THEN rc
    ELSE RemovalBump(BumpFirst(rc, order, k - 1), order[k])

\* the vocabulary add_token proposes once the token s is removed, by the
\* stats the cache c holds
SwapCandidate(c, token_set, smp, s) ==
    optimize_add_token(c, remove_token(token_set, find_token(token_set, s)), smp).result

\* the candidate for s is a vocabulary with strictly fewer total_tokens
SwapCandidateWins(c, token_set, smp, s) ==
    \E candidate \in {SwapCandidate(c, token_set, smp, s)} :
        /\ ~IsNone(candidate)
        /\ get_stats(c, candidate, smp).stats.total_tokens
              < get_stats(c, token_set, smp).stats.total_tokens

\* a round of the loop at ntokens(V) = N that ran the for loop of
\* remove_add_token: it adopted a swap, or adopted nothing and returned
SwapLoopRound ==
    /\ pc = "loop"
    /\ ntokens(ts) = budget
    /\ pc' # "panic"
    /\ how' \in {"swap", "none"}

C24_SwapTriesByAttemptCount ==
    [][SwapLoopRound =>
          \E order \in ToRemoveOrders(ts, removal_count) :
          \E k \in 0..Len(order) :
             /\ removal_count' = BumpFirst(removal_count, order, k)
             /\ how' = "none" => k = Len(order)
             /\ how' = "swap" =>
                   /\ k >= 1
                   /\ SwapCandidateWins(cache', ts, samples, order[k])
                   /\ ts' = get_stats(cache', SwapCandidate(cache', ts, samples, order[k]),
                                   samples).stats.token_set
             /\ \A j \in 1..(IF how' = "swap" THEN k - 1 ELSE k) :
                   ~SwapCandidateWins(cache', ts, samples, order[j])]_vars

-----------------------------------------------------------------------------
(* Claims about the multi-byte tokens under the byte optimizers (SpecVocab) *)

\* the set of the multi-byte Str tokens of a vocabulary
MultiByteStr(token_set) ==
    {token_set.tokens[i].s : i \in {j \in 1..Len(token_set.tokens) :
                                       /\ ~token_set.tokens[j].ext
                                       /\ Len(token_set.tokens[j].s) > 1}}

\* C25: the vocabulary SimpleBytesOptimizer, NoopBytesOptimizer or
\* HuffOptimizer returns has exactly the multi-byte Str tokens of the
\* vocabulary of the stats it is given: none is dropped, none is added.
C25_OptimizersKeepMultiByte ==
    [][/\ (pc' = "build" /\ how' \in {"simple", "huff"}) =>
              MultiByteStr(ts') = MultiByteStr(ts)
       /\ \E st \in {tokenize_file(ts, samples)} :
             ~IsPanic(st) =>
                 \A n \in 0..MaxByteExt :
                    MultiByteStr(NoopOptimizeBytes(st, n)) = MultiByteStr(ts)]_vars

\* C25 witness: HuffOptimizer returned a vocabulary that holds two multi-byte
\* Str tokens
C25_Witness ==
    /\ pc = "build"
    /\ how = "huff"
    /\ Cardinality(MultiByteStr(ts)) = 2

\* SimpleBytesOptimizer returned a vocabulary that holds two multi-byte Str
\* tokens
C25_SimpleKeptTwo ==
    /\ pc = "build"
    /\ how = "simple"
    /\ Cardinality(MultiByteStr(ts)) = 2

-----------------------------------------------------------------------------
(* SpecHuff: optimize_tokenset seeds a BytesHuff vocabulary: the corpus is   *)
(* scanned with new_bytes, whose token_counts are the byte frequencies, and  *)
(* HuffOptimizer::optimize_bytes builds the vocabulary from these stats.     *)

RECURSIVE SumCounts(_)
SumCounts(v) == IF v = <<>> THEN 0 ELSE Head(v) + SumCounts(Tail(v))

\* the stats of a scan with new_bytes of a corpus with the byte frequencies
\* freq
ByteStats(freq) ==
    [TokenStatsNew(FreshBytes) EXCEPT
        !.token_counts = freq,
        !.total_tokens = SumCounts(freq),
        !.scanned_bytes = SumCounts(freq)]

InitHuff ==
    /\ \E freq \in [1..Len(ByteList) -> 0..MaxByteCount] : stats = ByteStats(freq)
    /\ ts = FreshBytes
    /\ loaded = None
    /\ slices = <<>>
    /\ pc = "seed"
    /\ samples = <<>>
    /\ nadds = 0
    /\ cache = <<>>
    /\ ret = None
    /\ budget = 0
    /\ removal_count = <<>>
    /\ prev_ts = None
    /\ how = "none"
    /\ kind_arg = "BytesHuff"
    /\ json = None
    /\ ParIdle

\* HuffOptimizer::optimize_bytes(&stats, ntokens)
HuffSeed(n_byte_ext_tokens) ==
    /\ pc = "seed"
    /\ budget' = n_byte_ext_tokens
    /\ \E new_token_set \in {HuffOptimizeBytes(stats, n_byte_ext_tokens)} :
          IF IsPanic(new_token_set) THEN pc' = "panic" /\ UNCHANGED <<ts, how>>
          ELSE ts' = new_token_set /\ how' = "huff" /\ pc' = "seeded"
    /\ UNCHANGED <<loaded, stats, slices, samples, nadds, cache, ret, removal_count,
                   prev_ts, kind_arg, json, parVars>>

NextHuff == \E n \in 2..MaxHuffBudget : HuffSeed(n)

SpecHuff == InitHuff /\ [][NextHuff]_vars

\* the entries of counts at the places keep, in their order
SubCountsAt(counts, keep) ==
    SelectSeq([i \in 1..Len(counts) |-> IF i \in keep THEN counts[i] ELSE None],
              LAMBDA c : ~IsNone(c))

\* the entries of counts that lie in group i of splits: from its lo up to
\* the lo of the next group
GroupOf(counts, splits, i) ==
    {c \in Range(counts) :
        /\ c.ch >= splits[i].lo
        /\ i < Len(splits) => c.ch < splits[i + 1].lo}

\* the summed count of group i
GroupCount(counts, splits, i) ==
    SumCounts([j \in 1..Len(counts) |->
                  IF counts[j] \in GroupOf(counts, splits, i) THEN counts[j].count ELSE 0])

\* splits has one group fewer than finer: groups at and at + 1 of finer are
\* one group of splits
MergedAt(splits, finer, at) ==
    /\ Len(splits) = Len(finer) - 1
    /\ \A i \in 1..Len(splits) :
          splits[i].lo = IF i <= at THEN finer[i].lo ELSE finer[i + 1].lo

\* what the claim says of optimize_splits(counts, parts)
SplitsAsClaimed(counts, parts) ==
    \E splits \in {optimize_splits(counts, parts)} :
        /\ Len(splits) = parts
        /\ splits[1].lo = counts[1].ch
        /\ \A i \in 1..(parts - 1) : splits[i].lo < splits[i + 1].lo
        /\ \A i \in 1..parts :
              /\ \E c \in GroupOf(counts, splits, i) : c.ch = splits[i].lo
              /\ \E c \in GroupOf(counts, splits, i) :
                    /\ c.ch = splits[i].top
                    /\ c.count = splits[i].top_count
                    /\ \A o \in GroupOf(counts, splits, i) : o.count <= c.count
        /\ IF parts = Len(counts)
           THEN \A i \in 1..parts : splits[i].lo = counts[i].ch
           ELSE \E finer \in {optimize_splits(counts, parts + 1)} :
                \E at \in 1..parts :
                    /\ MergedAt(splits, finer, at)
                    /\ \A j \in 1..parts :
                          GroupCount(counts, finer, at) + GroupCount(counts, finer, at + 1)
                              <= GroupCount(counts, finer, j)
                                    + GroupCount(counts, finer, j + 1)

\* C26: for the byte counts HuffOptimizer works on and every sublist of
\* them, optimize_splits(counts, parts) with 1 <= parts <= len(counts)
\* returns parts groups, consecutive ranges of the bytes that begin at the
\* first byte and cover each byte once; the groups for parts are those for
\* parts + 1 with the adjacent pair of least summed count merged; the top
\* of a group is a byte of the group of highest count, with that count.
C26_SplitsAreGreedyRanges ==
    \E all \in {HuffCounts(stats)} :
    \A keep \in SUBSET (1..Len(all)) \ {{}} :
    \E counts \in {SubCountsAt(all, keep)} :
    \A parts \in 1..Len(counts) : SplitsAsClaimed(counts, parts)

\* C26 witness: HuffOptimizer has built a vocabulary from counts for which
\* the split in three groups has a group of two bytes whose top is not its
\* first byte, and is the split in four groups merged at another place than
\* the first
C26_Witness ==
    /\ pc = "seeded"
    /\ \E counts \in {HuffCounts(stats)} :
       \E splits \in {optimize_splits(counts, 3)} :
          /\ \E i \in 1..3 :
                /\ Cardinality(GroupOf(counts, splits, i)) = 2
                /\ splits[i].top # splits[i].lo
          /\ ~MergedAt(splits, optimize_splits(counts, 4), 1)

\* what the claim says of a vocabulary optimize_bytes_tokenset built from
\* counts with n_char_tokens groups and n_ext_tokens Ext tokens
SequencesAsClaimed(token_set, counts, n_char_tokens, n_ext_tokens) ==
    \E top_splits \in {optimize_splits(counts, n_char_tokens)} :
        /\ \A q \in Range(token_set.sequences) :
              /\ Len(q.string) = 1
              /\ Len(q.tokens) >= 2
              /\ \E i \in 1..Len(top_splits) :
                    /\ \E c \in GroupOf(counts, top_splits, i) : c.ch = q.string[1]
                    /\ q.tokens[1] \in 0..(Len(token_set.tokens) - 1)
                    /\ At(token_set.tokens, q.tokens[1]) = Str(<<top_splits[i].top>>)
              /\ \A j \in 2..Len(q.tokens) :
                    /\ q.tokens[j] \in 0..(n_ext_tokens - 1)
                    /\ At(token_set.tokens, q.tokens[j]).ext
        /\ \A a, b \in 1..Len(token_set.sequences) :
              token_set.sequences[a].tokens = token_set.sequences[b].tokens => a = b

\* C27: in every vocabulary optimize_bytes_tokenset builds with E Ext
\* tokens, each fallback sequence is the index of the single-byte Str token
\* of the top byte of the byte's group, followed by one or more indices of
\* Ext tokens, all below E; no two bytes have the same token list.
C27_SequencesAreTopThenExt ==
    \E counts \in {HuffCounts(stats)} :
        /\ \A n_ext_tokens \in 1..(MaxHuffBudget - 1) :
           \A n_char_tokens \in 1..Len(counts) :
              SequencesAsClaimed(
                  optimize_bytes_tokenset(counts, n_char_tokens, n_ext_tokens, "Raw"),
                  counts, n_char_tokens, n_ext_tokens)
        /\ pc = "seeded" =>
              SequencesAsClaimed(ts, counts, budget - ts.n_ext_tokens, ts.n_ext_tokens)

\* C27 witness: HuffOptimizer has adopted a vocabulary with two Ext tokens
\* and one single-byte token, so that the four other bytes are sequences,
\* one of them of three tokens
C27_Witness ==
    /\ pc = "seeded"
    /\ ts.n_ext_tokens = 2
    /\ Len(ts.tokens) = 3
    /\ Len(ts.sequences) = Len(ByteList) - 1
    /\ \E q \in Range(ts.sequences) : Len(q.tokens) >= 3

-----------------------------------------------------------------------------
(* processing.rs: process.  A text is a sequence of chars; the chars of the *)
(* model are 'a', 'B', ' ', ',' and '\x16', and 'b', the lowercase of 'B',  *)
(* which only the output holds.                                             *)

LineChars == {97, 66, 32, 44, 22}

\* char::is_alphabetic
is_alphabetic(ch) == ch \in {97, 98, 66}

\* char::is_uppercase
is_uppercase(ch) == ch = 66

\* char::is_lowercase
is_lowercase(ch) == ch \in {97, 98}

\* char::to_lowercase
to_lowercase(ch) == IF ch = 66 THEN 98 ELSE ch

get_char_type(ch) ==
    IF is_alphabetic(ch) THEN "Letter"
    ELSE IF ch = 32 THEN "Space"
    ELSE "NonLetter"

\* what add_word pushes for the word before the '\x16'
cased_word(word) ==
    LET first == Head(word)
        rest == Tail(word)
    IN  IF is_uppercase(first)
        THEN IF \A i \in 1..Len(rest) : is_lowercase(rest[i])
             THEN <<20, to_lowercase(first)>> \o rest
             ELSE IF \A i \in 1..Len(rest) : is_uppercase(rest[i])
             THEN <<21>> \o [i \in 1..Len(word) |-> to_lowercase(word[i])]
             ELSE word
        ELSE word

\* add_word(&mut out, &word): out after the call
add_word(out, word) == out \o cased_word(word) \o <<22>>

\* one round of the for loop of process: [state, out, word] after the char
process_char(s, ch) ==
    LET type == get_char_type(ch)
    IN  CASE s.state = "NonWord" /\ type = "Letter" ->
                [s EXCEPT !.word = Append(@, ch), !.state = "Word"]
          [] s.state = "NonWord" /\ type # "Letter" ->
                [s EXCEPT !.out = Append(@, ch)]
          [] s.state = "Word" /\ type = "Letter" ->
                [s EXCEPT !.word = Append(@, ch)]
          [] s.state = "Word" /\ type = "Space" ->
                [state |-> "SpaceAfterWord", out |-> add_word(s.out, s.word), word |-> <<>>]
          [] s.state = "Word" /\ type = "NonLetter" ->
                [state |-> "NonWord", out |-> Append(add_word(s.out, s.word), ch),
                 word |-> <<>>]
          [] s.state = "SpaceAfterWord" /\ type = "Letter" ->
                [s EXCEPT !.word = Append(@, ch), !.state = "Word"]
          [] s.state = "SpaceAfterWord" /\ type # "Letter" ->
                [s EXCEPT !.out = @ \o <<32, ch>>, !.state = "NonWord"]

\* the for loop of process over the first n chars
RECURSIVE process_chars(_, _)
process_chars(text, n) ==
    IF n = 0 THEN [state |-> "NonWord", out |-> <<>>, word |-> <<>>]
    ELSE process_char(process_chars(text, n - 1), text[n])

\* a process that pushes no '\x16' after a word that ends the text
process_forgets_last_marker(text) ==
    LET s == process_chars(text, Len(text))
    IN  CASE s.state = "Word" -> s.out \o cased_word(s.word)
          [] s.state = "SpaceAfterWord" -> Append(s.out, 32)
          [] OTHER -> s.out

process(text) ==
    LET s == process_chars(text, Len(text))
    IN  CASE s.state = "Word" -> add_word(s.out, s.word)
          [] s.state = "SpaceAfterWord" -> Append(s.out, 32)
          [] OTHER -> s.out

-----------------------------------------------------------------------------
(* SpecProcess: process_file reads a line and writes process(line).         *)

InitProcess ==
    /\ samples \in {<<line>> : line \in StringsOver(LineChars, 0, MaxLineLen)}
    /\ ret = None
    /\ pc = "line"
    /\ ts = TokenSetNew(0, "Raw", "Bytes", FALSE)
    /\ loaded = None
    /\ stats = NoStats
    /\ slices = <<>>
    /\ nadds = 0
    /\ cache = <<>>
    /\ budget = 0
    /\ removal_count = <<>>
    /\ prev_ts = None
    /\ how = "none"
    /\ kind_arg = "Bytes"
    /\ json = None
    /\ ParIdle

\* let processed = process(&line); writer.write_all(processed.as_bytes())
ProcessLine ==
    /\ pc = "line"
    /\ ret' = process(samples[1])
    /\ pc' = "written"
    /\ UNCHANGED <<ts, loaded, stats, slices, samples, nadds, cache, budget,
                   removal_count, prev_ts, how, kind_arg, json, parVars>>

NextProcess == ProcessLine

SpecProcess == InitProcess /\ [][NextProcess]_vars

\* the end of the maximal run of letters that starts at place i
RECURSIVE WordEnd(_, _)
WordEnd(text, i) ==
    IF i < Len(text) /\ is_alphabetic(text[i + 1]) THEN WordEnd(text, i + 1) ELSE i

\* the space at place i directly follows a word and is directly followed by
\* a letter
SpaceBetweenWords(text, i) ==
    /\ text[i] = 32
    /\ i > 1 /\ is_alphabetic(text[i - 1])
    /\ i < Len(text) /\ is_alphabetic(text[i + 1])

\* the output the claim describes, from place i on: each word, in the case
\* marking of add_word, and one '\x16'; each char that is no letter, but the
\* spaces between two words
RECURSIVE Marked(_, _)
Marked(text, i) ==
    IF i > Len(text) THEN <<>>
    ELSE IF is_alphabetic(text[i])
    THEN cased_word(SubSeq(text, i, WordEnd(text, i))) \o <<22>>
         \o Marked(text, WordEnd(text, i) + 1)
    ELSE IF SpaceBetweenWords(text, i) THEN Marked(text, i + 1)
    ELSE <<text[i]>> \o Marked(text, i + 1)

\* C28: process(text) leaves out a space exactly when the space directly
\* follows a word and is directly followed by a letter; every other char
\* that is no letter is in the output unchanged and in order, and every
\* word is followed by exactly one '\x16', also the word that ends the text.
C28_ProcessMarksWordsDropsSpaces ==
    pc = "written" => ret = Marked(samples[1], 1)

\* C28 witness: a line was processed in which a space stands between two
\* words and whose last char is a letter; the output has one char more than
\* the line
C28_Witness ==
    /\ pc = "written"
    /\ \E i \in 1..Len(samples[1]) : SpaceBetweenWords(samples[1], i)
    /\ is_alphabetic(Last(samples[1]))
    /\ Len(ret) = Len(samples[1]) + 1

-----------------------------------------------------------------------------
(* Claims about the totals of a TokenStats (SpecSplit) *)

\* C29: after the process_slice calls made on one TokenStats, total_tokens
\* is the sum of the entries of token_counts and scanned_bytes is the summed
\* length of the slices processed.
C29_TotalsMatchCounts ==
    pc = "ready" =>
        /\ stats.total_tokens = SumCounts(stats.token_counts)
        /\ stats.scanned_bytes = SumCounts([k \in 1..Len(slices) |-> Len(slices[k])])

\* C29 witness: two slices were processed, a Str token and a fallback
\* sequence of several tokens were counted, and a token stands in the token
\* list of a counted sequence more than once
C29_Witness ==
    /\ pc = "ready"
    /\ Len(slices) = 2
    /\ slices[1] # <<>> /\ slices[2] # <<>>
    /\ \E i \in 1..Len(ts.tokens) : ~ts.tokens[i].ext /\ stats.token_counts[i] > 0
    /\ \E q \in 1..Len(ts.sequences) :
          /\ stats.seq_counts[q] > 0
          /\ \E a, b \in 1..Len(ts.sequences[q].tokens) :
                a # b /\ ts.sequences[q].tokens[a] = ts.sequences[q].tokens[b]
    /\ stats.total_tokens > stats.scanned_bytes

-----------------------------------------------------------------------------
(* Claims about the requests made to SimpleBytesOptimizer (SpecOpt) *)

BitsKinds == {"Bits1", "Bits2", "Bits4"}

\* the number of single-byte tokens SimpleBytesOptimizer selects when asked
\* for n_byte_ext_tokens
SimpleSelects(token_set, n_byte_ext_tokens) == n_byte_ext_tokens - token_set.n_ext_tokens

\* C30: for a Bits1, Bits2 or Bits4 vocabulary V with ntokens(V) <= N,
\* optimization_step completes without a runtime failure: its byte-tail
\* reshuffle asks SimpleBytesOptimizer for a number of single-byte tokens
\* between 0 and the number of byte values, and no call inside the step,
\* add-by-byte included, fails.
C30_BitsStepCompletes ==
    (pc = "loop" /\ ts.token_type \in BitsKinds /\ ntokens(ts) <= budget) =>
        /\ SimpleSelects(ts, ReshuffleBudget(ts, budget)) \in 0..Cardinality(ByteValues)
        /\ \A to_remove \in ToRemoveOrders(ts, removal_count) :
              ~IsPanic(optimization_step(cache, ts, budget, samples, removal_count,
                                         to_remove))

\* C30 witness of the violation: a round of the loop on a Bits vocabulary
\* with ntokens(V) <= N has failed, and its reshuffle asked
\* SimpleBytesOptimizer for more single-byte tokens than there are byte
\* values
C30_ReshuffleAskedTooMany ==
    /\ pc = "panic"
    /\ ts.token_type \in BitsKinds
    /\ DOMAIN cache # {}
    /\ ntokens(ts) <= budget
    /\ SimpleSelects(ts, ReshuffleBudget(ts, budget)) > Cardinality(ByteValues)

\* the same for add-by-byte: the reshuffle's request was within the byte
\* values, every byte value is a token already, and the step has failed
C30_AddByteAskedTooMany ==
    /\ pc = "panic"
    /\ ts.token_type \in BitsKinds
    /\ DOMAIN cache # {}
    /\ ntokens(ts) <= budget
    /\ SimpleSelects(ts, ReshuffleBudget(ts, budget)) \in 0..Cardinality(ByteValues)
    /\ \A b \in ByteValues : find_token(ts, <<b>>) >= 0

\* no request asks for fewer than 0 single-byte tokens
C30_NeverBelowZero ==
    (pc = "loop" /\ ts.token_type \in BitsKinds /\ ntokens(ts) <= budget) =>
        /\ SimpleSelects(ts, ReshuffleBudget(ts, budget)) >= 0
        /\ SimpleSelects(ts, AddByteBudget(ts)) >= 0

=============================================================================
